---- MODULE Spec2Model ----
(***************************************************************************)
(* The ACWhisk service worker (the "caching agent"):                       *)
(* src/src/components/ui/motion.tsx, lines 244-751, and its page-side      *)
(* callers in src/src/components/RecipeRatingReview.tsx.                    *)
(*                                                                         *)
(* The worker is single threaded; every `await` and every promise callback *)
(* is a suspension point.  One action of this module is one run-to-        *)
(* completion step of the worker between two suspension points.            *)
(*                                                                         *)
(* Strings that the code inspects (hostnames, pathnames) are sequences of  *)
(* tokens; String.includes and RegExp.test are contiguous-subsequence      *)
(* tests on the tokens.  Time is counted in days.                          *)
(***************************************************************************)
EXTENDS Integers, Sequences, FiniteSets, TLC

\* ------------------------------------------------------------------------
\* Bounds of the model
\* ------------------------------------------------------------------------
MaxReq == 2
MaxTasks == 1
MaxPuts == 1
MaxVer == 2

\* ------------------------------------------------------------------------
\* Configuration constants (motion.tsx 244-266)
\* ------------------------------------------------------------------------
CACHE_NAME == "acwhisk-v1.0.3"
IMAGE_CACHE_NAME == "acwhisk-images-v1.0.3"
STATIC_CACHE == "acwhisk-static-v1.0.3"
\* a dynamic partition under the static partition's name
StaticCacheAlias == STATIC_CACHE

DYNAMIC_CACHE == "acwhisk-dynamic-v1.0.3"

STATIC_ASSETS ==
  << "/", "/App.tsx", "/styles/globals.css", "/components/ui/button.tsx",
     "/components/ui/card.tsx", "/components/ui/avatar.tsx",
     "/components/figma/ImageWithFallback.tsx" >>

API_CACHE_PATTERNS ==
  << <<"/", "api", "/", "recipes">>,
     <<"/", "api", "/", "posts">>,
     <<"/", "api", "/", "users">>,
     <<"/", "api", "/", "auth">> >>

RetentionDays == 7

\* ------------------------------------------------------------------------
\* URLs.  new URL(href) as a table over the hrefs the model uses; hrefs
\* without an origin are same-origin URLs of the application.
\* ------------------------------------------------------------------------
AppHost == <<"acwhisk", ".", "app">>
SupabaseHost == <<"proj", ".", "supabase", ".", "co">>

AppURL(path) == [protocol |-> "https:", hostname |-> AppHost, pathname |-> path]

ParseURL(href) ==
  CASE href = "/" -> AppURL(<<"/">>)
    [] href = "/App.tsx" -> AppURL(<<"/", "App", ".tsx">>)
    [] href = "/styles/globals.css" -> AppURL(<<"/", "styles", "/", "globals", ".css">>)
    [] href = "/components/ui/button.tsx" ->
         AppURL(<<"/", "components", "/", "ui", "/", "button", ".tsx">>)
    [] href = "/components/ui/card.tsx" ->
         AppURL(<<"/", "components", "/", "ui", "/", "card", ".tsx">>)
    [] href = "/components/ui/avatar.tsx" ->
         AppURL(<<"/", "components", "/", "ui", "/", "avatar", ".tsx">>)
    [] href = "/components/figma/ImageWithFallback.tsx" ->
         AppURL(<<"/", "components", "/", "figma", "/", "ImageWithFallback", ".tsx">>)
    [] href = "/assets/index.js" -> AppURL(<<"/", "assets", "/", "index", ".js">>)
    [] href = "/recipes" -> AppURL(<<"/", "recipes">>)
    [] href = "/recipes.jpg" -> AppURL(<<"/", "recipes", ".jpg">>)
    [] href = "/recipes.jpg?w=100" -> AppURL(<<"/", "recipes", ".jpg">>)
    [] href = "/api/recipes?img=a.png" -> AppURL(<<"/", "api", "/", "recipes">>)
    [] href = "/upload/photo" -> AppURL(<<"/", "upload", "/", "photo">>)
    [] href = "/api/recipes" -> AppURL(<<"/", "api", "/", "recipes">>)
    [] href = "/api/recipes/1.PNG" -> AppURL(<<"/", "api", "/", "recipes", "/", "1", ".PNG">>)
    [] href = "/api/auth/session" -> AppURL(<<"/", "api", "/", "auth", "/", "session">>)
    [] href = "https://proj.supabase.co/auth/v1/token" ->
         [protocol |-> "https:", hostname |-> SupabaseHost,
          pathname |-> <<"/", "auth", "/", "v1", "/", "token">>]
    [] href = "https://proj.supabase.co/rest/v1/recipes" ->
         [protocol |-> "https:", hostname |-> SupabaseHost,
          pathname |-> <<"/", "rest", "/", "v1", "/", "recipes">>]
    [] href = "https://proj.supabase.co/storage/v1/object/a.png" ->
         [protocol |-> "https:", hostname |-> SupabaseHost,
          pathname |-> <<"/", "storage", "/", "v1", "/", "object", "/", "a", ".png">>]
    [] href = "chrome-extension://abc/content.js" ->
         [protocol |-> "chrome-extension:", hostname |-> <<"abc">>,
          pathname |-> <<"/", "content", ".js">>]
    [] href = "moz-extension://abc/content.js" ->
         [protocol |-> "moz-extension:", hostname |-> <<"abc">>,
          pathname |-> <<"/", "content", ".js">>]

\* String.prototype.includes, and RegExp.test of a literal pattern
Includes(s, pat) ==
  \E k \in 0..(Len(s) - Len(pat)) : \A j \in 1..Len(pat) : s[k + j] = pat[j]

\* the /i flag of the image pattern
ToLower(tok) ==
  CASE tok = ".JPG" -> ".jpg"
    [] tok = ".PNG" -> ".png"
    [] OTHER -> tok

ImageExtensions == {".jpg", ".jpeg", ".png", ".gif", ".webp", ".svg"}

\* /\.(jpg|jpeg|png|gif|webp|svg)(\?.*)?$/i.test(pathname)
ImageExtensionTest(pathname) ==
  \E k \in 1..Len(pathname) :
    /\ ToLower(pathname[k]) \in ImageExtensions
    /\ (k = Len(pathname) \/ pathname[k + 1] = "?")

isImageRequest(url) ==
  \/ ImageExtensionTest(url.pathname)
  \/ Includes(url.pathname, <<"/", "upload", "/">>)
  \/ Includes(url.hostname, <<"supabase", ".", "co">>)

isAPIRequest(request) ==
  LET url == ParseURL(request.url)
  IN  \E p \in 1..Len(API_CACHE_PATTERNS) : Includes(url.pathname, API_CACHE_PATTERNS[p])

\* ------------------------------------------------------------------------
\* The exclusions and the dispatch of the fetch listener
\* ------------------------------------------------------------------------
\* a listener without the method test
SkipNonGetAbsent(request) == FALSE

SkipNonGet(request) == request.method # "GET"

SkipExtension(url) == url.protocol = "chrome-extension:"

\* a listener that tests only the hostname's sub-route "/auth/v2/"
SkipAuthNarrow(url) ==
  /\ Includes(url.hostname, <<"supabase", ".", "co">>)
  /\ Includes(url.pathname, <<"/", "auth", "/", "v2", "/">>)

SkipAuth(url) ==
  /\ Includes(url.hostname, <<"supabase", ".", "co">>)
  /\ Includes(url.pathname, <<"/", "auth", "/">>)

\* a listener without the API branch
FetchDispatchNoAPI(request) ==
  LET url == ParseURL(request.url)
  IN  IF SkipNonGet(request) THEN "none"
      ELSE IF SkipExtension(url) THEN "none"
      ELSE IF SkipAuth(url) THEN "none"
      ELSE IF request.destination = "document" THEN "handlePageRequest"
      ELSE IF request.destination = "image" \/ isImageRequest(url)
           THEN "handleOptimizedImageRequest"
      ELSE "handleAssetRequest"

\* a listener that tests the API patterns before the image rule
FetchDispatchAPIFirst(request) ==
  LET url == ParseURL(request.url)
  IN  IF SkipNonGet(request) THEN "none"
      ELSE IF SkipExtension(url) THEN "none"
      ELSE IF SkipAuth(url) THEN "none"
      ELSE IF request.destination = "document" THEN "handlePageRequest"
      ELSE IF isAPIRequest(request) THEN "handleAPIRequest"
      ELSE IF request.destination = "image" \/ isImageRequest(url)
           THEN "handleOptimizedImageRequest"
      ELSE "handleAssetRequest"

FetchDispatch(request) ==
  LET url == ParseURL(request.url)
  IN  IF SkipNonGet(request) THEN "none"
      ELSE IF SkipExtension(url) THEN "none"
      ELSE IF SkipAuth(url) THEN "none"
      ELSE IF request.destination = "document" THEN "handlePageRequest"
      ELSE IF request.destination = "image" \/ isImageRequest(url)
           THEN "handleOptimizedImageRequest"
      ELSE IF isAPIRequest(request) THEN "handleAPIRequest"
      ELSE "handleAssetRequest"

\* ------------------------------------------------------------------------
\* Responses.  A header that may be absent is a set with at most one element.
\* ------------------------------------------------------------------------
NoResponse ==
  [status |-> 0, body |-> <<>>, ctype |-> "", cc |-> "", date |-> {}, swc |-> FALSE]

\* what the network answers for href: the upstream body in version ver
NetResponse(href, status, ver, date) ==
  [status |-> status, body |-> <<href, "#", ToString(ver)>>, ctype |-> "upstream",
   cc |-> "upstream", date |-> date, swc |-> FALSE]

\* new Response(`<!DOCTYPE html>...`, {status: 200, headers: {'Content-Type': 'text/html'}})
OfflinePage ==
  [status |-> 200,
   body |-> <<"<title>", "ACWhisk - ", "Offline", "</title>", "<h1>", "ACWhisk - ",
              "Offline", "</h1>", "You're currently offline.">>,
   ctype |-> "text/html", cc |-> "", date |-> {}, swc |-> FALSE]

\* new Response(`<svg ...>`, {headers: {...}}): the status defaults to 200
PlaceholderImage ==
  [status |-> 200, body |-> <<"<svg>", "Image unavailable", "</svg>">>,
   ctype |-> "image/svg+xml", cc |-> "no-cache", date |-> {}, swc |-> FALSE]

\* new Response(JSON.stringify({error, message, offline: true}), {status: 503, ...})
OfflineJSON ==
  [status |-> 503,
   body |-> <<"{", "error", ":", "Network unavailable", ",", "message", ":",
              "This request failed because you are offline.", ",", "offline", ":",
              "true", "}">>,
   ctype |-> "application/json", cc |-> "", date |-> {}, swc |-> FALSE]

\* new Response(responseClone.body, {status, statusText, headers: {...response.headers,
\* 'Cache-Control': ..., 'Service-Worker-Cached': 'true', 'X-Optimized': 'true'}}):
\* a Headers object has no own enumerable properties, so the spread copies none of
\* the upstream headers.
OptimizedResponse(response) ==
  [status |-> response.status, body |-> response.body, ctype |-> "",
   cc |-> "public, max-age=604800", date |-> {}, swc |-> TRUE]

\* ------------------------------------------------------------------------
\* State
\* ------------------------------------------------------------------------
VARIABLES
  cacheMap,   \* CacheStorage: <<[name, id], ...>> in creation order
  objs,       \* Cache objects by id: [id -> [href -> Response]]
  req,        \* fetch handlers: [1..MaxReq -> handler record]
  puts,       \* cache.put calls issued and not awaited, not yet landed
  tasks,      \* running message-handler promise chains
  sweep,      \* doBackgroundSync
  life,       \* the worker's lifecycle
  inst,       \* the install handler's two promise chains
  act,        \* the activate handler
  now,        \* Date.now(), in days
  httpCache,  \* the environment: responses may come out of an HTTP cache
  inbox,      \* the open page contexts: whether this worker controls the page,
              \* and the messages posted to it that its listener has not
              \* handled yet
  upstream,   \* the environment: the version of its content the origin serves
  served,     \* bookkeeping: the hrefs an image handler returned from the network
              \* with status 200, and that nothing has removed from the image
              \* partition since
  storedAt    \* bookkeeping: for each of these hrefs, the day the image handler
              \* stored it

vars ==
  <<cacheMap, objs, req, puts, tasks, sweep, life, inst, act, now, httpCache, inbox, upstream,
    served, storedAt>>

Slots == 1..MaxReq

\* a Cache object is identified by the name it was created under and a serial
\* number; NoCache stands for no reference
NoCache == <<"", 0>>

NoRequest == [method |-> "", url |-> "", destination |-> ""]

IdleReq ==
  [pc |-> "idle", request |-> NoRequest, handler |-> "none", cache |-> NoCache,
   net |-> "none", lookup |-> "none", response |-> NoResponse, origin |-> "none",
   responded |-> FALSE, touched |-> FALSE, fetches |-> 0, steady |-> FALSE]

IdleSweep == [pc |-> "idle", cache |-> NoCache, requests |-> {}, oneWeekAgo |-> 0,
              request |-> "", started |-> 0, written |-> {}, evicted |-> {}]

\* what a handler posts on event.ports[0]
NoReply == [success |-> FALSE, dynamicCacheSize |-> 0, imageCacheSize |-> 0, totalSize |-> 0]

\* one message event and the promise chain it starts.  replies counts the
\* postMessage calls on its port; the rest is bookkeeping: ok and failed are
\* the URLs whose fetch has returned status 200, and has failed or returned
\* another status; afterClear and undisturbed say that the message was sent
\* by a page that had received a CLEAR_CACHE reply, and that no fetch event
\* or storing message has arrived since a CLEAR_CACHE that found the worker
\* at rest
NoTask ==
  [kind |-> "", pc |-> "", cache |-> NoCache, image |-> NoCache, urls |-> {}, pending |-> {},
   replies |-> 0, reply |-> NoReply, ok |-> {}, failed |-> {},
   afterClear |-> FALSE, undisturbed |-> FALSE]

\* a port that delivers every message twice
PostMessageTwice(t, data) == [t EXCEPT !.replies = @ + 2, !.reply = data]

\* event.ports[0].postMessage(data)
PostMessage(t, data) == [t EXCEPT !.replies = @ + 1, !.reply = data]

Disturb(ts) == {[t EXCEPT !.undisturbed = FALSE] : t \in ts}

\* no handler, put, message chain or sweep is in flight
AtRest ==
  /\ \A i \in Slots : req[i].pc = "idle"
  /\ puts = {} /\ tasks = {} /\ sweep.pc = "idle"

\* ------------------------------------------------------------------------
\* CacheStorage and Cache
\* ------------------------------------------------------------------------
CacheNamesOf(cm) == {cm[k].name : k \in 1..Len(cm)}

\* caches.has / the id of the Cache object mapped under name
IdOf(cm, name) ==
  LET k == CHOOSE k \in 1..Len(cm) : cm[k].name = name IN cm[k].id

NewId(os, name) ==
  LET k == CHOOSE k \in 1..(Cardinality(DOMAIN os) + 1) :
             /\ <<name, k>> \notin DOMAIN os
             /\ \A j \in 1..(k - 1) : <<name, j>> \in DOMAIN os
  IN  <<name, k>>

EmptyCache == [h \in {} |-> NoResponse]

\* caches.open(name): the mapped Cache object, created when there is none
OpenMap(cm, os, name) ==
  IF name \in CacheNamesOf(cm) THEN cm
  ELSE Append(cm, [name |-> name, id |-> NewId(os, name)])

OpenObjs(cm, os, name) ==
  IF name \in CacheNamesOf(cm) THEN os
  ELSE [n \in DOMAIN os \cup {NewId(os, name)} |-> IF n \in DOMAIN os THEN os[n] ELSE EmptyCache]

OpenId(cm, os, name) ==
  IF name \in CacheNamesOf(cm) THEN IdOf(cm, name) ELSE NewId(os, name)

\* a caches.delete that leaves the name mapped
DeleteMapKeeps(cm, name) == cm

\* caches.delete(name): the name is unmapped; the Cache object lives on for
\* whoever still holds it
DeleteMap(cm, name) == SelectSeq(cm, LAMBDA e : e.name # name)

\* cache.put(request, response) / cache.delete(request) on one Cache object
\* a put that keeps the entry a cache already has
PutEntryFirstWins(c, href, response) ==
  [h \in DOMAIN c \cup {href} |-> IF h = href /\ h \notin DOMAIN c THEN response ELSE c[h]]

PutEntry(c, href, response) ==
  [h \in DOMAIN c \cup {href} |-> IF h = href THEN response ELSE c[h]]

DeleteEntry(c, href) == [h \in DOMAIN c \ {href} |-> c[h]]

\* a put that settles without storing
PutInDropped(os, id, href, response) == os

PutIn(os, id, href, response) == [os EXCEPT ![id] = PutEntry(os[id], href, response)]

\* a Cache object whose match finds nothing
CacheMatchNothing(os, id, href) == NoResponse

\* cache.match(request) on one Cache object
CacheMatch(os, id, href) ==
  IF href \in DOMAIN os[id] THEN os[id][href] ELSE NoResponse

\* caches.match(request): the first hit over the mapped caches, in creation order
CachesMatch(cm, os, href) ==
  LET hits == {k \in 1..Len(cm) : href \in DOMAIN os[cm[k].id]}
  IN  IF hits = {} THEN NoResponse
      ELSE LET k == CHOOSE k \in hits : \A j \in hits : k <= j
           IN  os[cm[k].id][href]

\* Cache objects somebody still holds a reference to
HeldIds(rq, ps, ts, sw, ins) ==
  {rq[i].cache : i \in DOMAIN rq} \cup {p.cache : p \in ps} \cup {t.cache : t \in ts}
    \cup {t.image : t \in ts} \cup {sw.cache, ins.cache}

\* unmapped Cache objects nobody holds are garbage
Collect(os, cm, held) ==
  LET live == {cm[k].id : k \in 1..Len(cm)} \cup held
  IN  [n \in DOMAIN os \cap live |-> os[n]]

HeldNext == HeldIds(req', puts', tasks', sweep', inst')

\* the Cache object mapped under IMAGE_CACHE_NAME, NoCache when there is none
ImagePartitionId ==
  IF IMAGE_CACHE_NAME \in CacheNamesOf(cacheMap) THEN IdOf(cacheMap, IMAGE_CACHE_NAME) ELSE NoCache

\* ------------------------------------------------------------------------
\* The network
\* ------------------------------------------------------------------------
StaleDays == 8
MaxClock == 8
MaxClients == 2
MaxInbox == 1
Statuses == {200, 503}

\* the date header of a network response: now; behind an HTTP cache or a server
\* that sets none also absent, or that of a response kept for StaleDays
DateChoices == IF httpCache THEN {{}, {now}, {now - StaleDays}} ELSE {{now}}

\* a fetch inside the worker that is answered by the worker's own offline page
NetOutcomesThroughWorker(href) == {[ok |-> TRUE, response |-> OfflinePage]}

\* fetch(href) resolves with a response or rejects
NetOutcomes(href) ==
  {[ok |-> FALSE, response |-> NoResponse]}
    \cup {[ok |-> TRUE, response |-> NetResponse(href, 200, v, d)] :
            v \in {upstream}, d \in DateChoices}
    \cup {[ok |-> TRUE, response |-> NetResponse(href, s, 0, {})] : s \in Statuses \ {200}}

\* the origin publishes a new version of its content
\* a day passes; no handler, message chain or sweep takes a day
Tick ==
  /\ AtRest
  /\ now < MaxClock
  /\ now' = now + 1
  /\ UNCHANGED <<cacheMap, objs, req, puts, tasks, sweep, life, inst, act, httpCache, inbox, upstream, served, storedAt>>

Publish ==
  /\ upstream < MaxVer
  /\ upstream' = upstream + 1
  /\ UNCHANGED <<cacheMap, objs, req, puts, tasks, sweep, life, inst, act, now, httpCache, inbox, served, storedAt>>

\* ------------------------------------------------------------------------
\* Lifecycle: install (287-306) and activate (309-332)
\* ------------------------------------------------------------------------
StaleNames == {CACHE_NAME, "acwhisk-dynamic-v1.0.2"}

\* what an earlier version left in one of its partitions
StaleContents == [h \in {"/"} |-> NetResponse("/", 200, 0, {})]

StaleMap(S) ==
  (IF CACHE_NAME \in S THEN <<[name |-> CACHE_NAME, id |-> <<CACHE_NAME, 1>>]>> ELSE <<>>)
    \o (IF "acwhisk-dynamic-v1.0.2" \in S
        THEN <<[name |-> "acwhisk-dynamic-v1.0.2", id |-> <<"acwhisk-dynamic-v1.0.2", 1>>]>>
        ELSE <<>>)

\* the worker script has been evaluated and the install event is dispatched;
\* CacheStorage holds what earlier versions left (one of staleSets), and an
\* earlier version is the active worker when it left something
InitWith(staleSets, httpCaches) ==
  /\ \E S \in staleSets :
       /\ cacheMap = StaleMap(S)
       /\ objs = [id \in {<<n, 1>> : n \in S} |-> StaleContents]
       /\ life = [state |-> "installing", skipWaiting |-> FALSE, claimed |-> FALSE,
                  oldActive |-> S # {}]
  /\ req = [i \in Slots |-> IdleReq]
  /\ puts = {}
  /\ tasks = {}
  /\ sweep = IdleSweep
  /\ inst = [a |-> "open", b |-> "open", cache |-> NoCache]
  /\ act = [pc |-> "idle", toDelete |-> {}]
  /\ now = 0
  /\ httpCache \in httpCaches
  /\ inbox = <<>>
  /\ upstream = 1
  /\ served = {}
  /\ storedAt = <<>>

Init == InitWith(SUBSET StaleNames, {FALSE})

\* a first install: no earlier version, CacheStorage empty
InitFresh == InitWith({{}}, {FALSE})

\* a first install behind an HTTP cache
InitCached == InitWith({{}}, {TRUE})

\* caches.open(STATIC_CACHE).then(cache => ...)
InstallOpenStatic ==
  /\ life.state = "installing" /\ inst.a = "open"
  /\ cacheMap' = OpenMap(cacheMap, objs, STATIC_CACHE)
  /\ objs' = OpenObjs(cacheMap, objs, STATIC_CACHE)
  /\ inst' = [inst EXCEPT !.a = "addAll", !.cache = OpenId(cacheMap, objs, STATIC_CACHE)]
  /\ UNCHANGED <<req, puts, tasks, sweep, life, act, now, httpCache, inbox, upstream, served, storedAt>>

\* cache.addAll(STATIC_ASSETS): every URL is fetched; the entries are stored
\* together when every response is ok, and nothing is stored otherwise
AddAllEntries(c, ver) ==
  [h \in DOMAIN c \cup {STATIC_ASSETS[k] : k \in 1..Len(STATIC_ASSETS)} |->
     IF \E k \in 1..Len(STATIC_ASSETS) : STATIC_ASSETS[k] = h
     THEN NetResponse(h, 200, ver, {now}) ELSE c[h]]

InstallAddAll(allOk, ver) ==
  /\ life.state = "installing" /\ inst.a = "addAll"
  /\ inst' = [inst EXCEPT !.a = IF allOk THEN "ok" ELSE "failed", !.cache = NoCache]
  /\ UNCHANGED <<cacheMap, req, puts, tasks, sweep, life, act, now, httpCache, inbox, upstream, served, storedAt>>
  /\ objs' = Collect(IF allOk
                     THEN [objs EXCEPT ![inst.cache] = AddAllEntries(objs[inst.cache], ver)]
                     ELSE objs,
                     cacheMap', HeldNext)

\* caches.open(IMAGE_CACHE_NAME).then(() => log); the chain runs on also when
\* the other one has already failed the install
InstallOpenImage ==
  /\ inst.b = "open"
  /\ cacheMap' = OpenMap(cacheMap, objs, IMAGE_CACHE_NAME)
  /\ objs' = OpenObjs(cacheMap, objs, IMAGE_CACHE_NAME)
  /\ inst' = [inst EXCEPT !.b = "ok"]
  /\ UNCHANGED <<req, puts, tasks, sweep, life, act, now, httpCache, inbox, upstream, served, storedAt>>

\* Promise.all([...]).then(() => self.skipWaiting())
InstallThen ==
  /\ life.state = "installing" /\ inst.a = "ok" /\ inst.b = "ok"
  /\ life' = [life EXCEPT !.state = "installed", !.skipWaiting = TRUE]
  /\ UNCHANGED <<cacheMap, objs, req, puts, tasks, sweep, inst, act, now, httpCache, inbox, upstream, served, storedAt>>

\* .catch(error => console.error(...)): the install still succeeds
InstallCatch ==
  /\ life.state = "installing" /\ inst.a = "failed"
  /\ life' = [life EXCEPT !.state = "installed"]
  /\ UNCHANGED <<cacheMap, objs, req, puts, tasks, sweep, inst, act, now, httpCache, inbox, upstream, served, storedAt>>

\* case 'SKIP_WAITING': self.skipWaiting(), sent to registration.waiting
SkipWaitingMessage ==
  /\ life.state = "installed" /\ ~life.skipWaiting /\ life.oldActive
  /\ life' = [life EXCEPT !.skipWaiting = TRUE]
  /\ UNCHANGED <<cacheMap, objs, req, puts, tasks, sweep, inst, act, now, httpCache, inbox, upstream, served, storedAt>>

\* the activate event: the waiting worker becomes the active one once nothing
\* holds it back; caches.keys() is called
KeepNames == {STATIC_CACHE, DYNAMIC_CACHE, IMAGE_CACHE_NAME}

ActivateEvent ==
  /\ life.state = "installed" /\ (life.skipWaiting \/ ~life.oldActive)
  /\ life' = [life EXCEPT !.state = "activating", !.oldActive = FALSE]
  /\ act' = [act EXCEPT !.pc = "keys"]
  /\ UNCHANGED <<cacheMap, objs, req, puts, tasks, sweep, inst, now, httpCache, inbox, upstream, served, storedAt>>

\* .then(cacheNames => Promise.all(cacheNames.map(...))): the deletions start
IsOldCache(cacheName) == cacheName \notin KeepNames

ActivateKeys ==
  /\ act.pc = "keys"
  /\ act' = [pc |-> "deleting", toDelete |-> {n \in CacheNamesOf(cacheMap) : IsOldCache(n)}]
  /\ UNCHANGED <<cacheMap, objs, req, puts, tasks, sweep, life, inst, now, httpCache, inbox, upstream, served, storedAt>>

\* one caches.delete(cacheName) completes
ActivateDelete(cacheName) ==
  /\ act.pc = "deleting" /\ cacheName \in act.toDelete
  /\ cacheMap' = DeleteMap(cacheMap, cacheName)
  /\ act' = [act EXCEPT !.toDelete = @ \ {cacheName}]
  /\ UNCHANGED <<req, puts, tasks, sweep, life, inst, now, httpCache, inbox, upstream, served, storedAt>>
  /\ objs' = Collect(objs, cacheMap', HeldNext)

\* a claim that does not wait for the deletions
ClaimReadyAtOnce == TRUE

\* .then(() => self.clients.claim()), after every deletion has completed
ClaimReady == act.toDelete = {}

ActivateClaim ==
  /\ act.pc = "deleting" /\ ClaimReady
  /\ act' = [pc |-> "claimed", toDelete |-> act.toDelete]
  /\ life' = [life EXCEPT !.claimed = TRUE]
  /\ inbox' = [c \in DOMAIN inbox |-> [inbox[c] EXCEPT !.controlled = TRUE]]
  /\ UNCHANGED <<cacheMap, objs, req, puts, tasks, sweep, inst, now, httpCache, upstream, served, storedAt>>

\* waitUntil settles: the worker is activated and receives fetch events
Activated ==
  /\ act.pc = "claimed"
  /\ act' = [pc |-> "idle", toDelete |-> {}]
  /\ life' = [life EXCEPT !.state = "activated"]
  /\ UNCHANGED <<cacheMap, objs, req, puts, tasks, sweep, inst, now, httpCache, inbox, upstream, served, storedAt>>

Lifecycle ==
  \/ InstallOpenStatic
  \/ \E allOk \in BOOLEAN : InstallAddAll(allOk, upstream)
  \/ InstallOpenImage
  \/ InstallThen
  \/ InstallCatch
  \/ SkipWaitingMessage
  \/ ActivateEvent
  \/ ActivateKeys
  \/ \E n \in StaleNames : ActivateDelete(n)
  \/ ActivateClaim
  \/ Activated

\* the lifecycle of a first install whose manifest is fetched without a failure
FirstInstall ==
  \/ InstallOpenStatic
  \/ InstallAddAll(TRUE, upstream)
  \/ InstallOpenImage
  \/ InstallThen
  \/ ActivateEvent
  \/ ActivateKeys
  \/ ActivateClaim
  \/ Activated

\* ------------------------------------------------------------------------
\* The fetch listener (335-368)
\* ------------------------------------------------------------------------
\* document and API handlers that look into the cache before the network
FirstStepCacheFirst(handler) ==
  CASE handler = "handlePageRequest" -> "catch"
    [] handler = "handleOptimizedImageRequest" -> "open"
    [] handler = "handleAPIRequest" -> "catch"
    [] handler = "handleAssetRequest" -> "match"
    [] OTHER -> "passthrough"

FirstStep(handler) ==
  CASE handler = "handlePageRequest" -> "fetch"
    [] handler = "handleOptimizedImageRequest" -> "open"
    [] handler = "handleAPIRequest" -> "fetch"
    [] handler = "handleAssetRequest" -> "match"
    [] OTHER -> "passthrough"

\* the listener runs to its end: it returns without event.respondWith, or it
\* calls event.respondWith(handler(request)) and the handler runs up to its
\* first await
FetchEvent(i, request) ==
  /\ life.state = "activated"
  /\ req[i].pc = "idle" /\ \A j \in Slots : j < i => req[j].pc # "idle"
  /\ LET handler == FetchDispatch(request)
     IN  req' = [req EXCEPT ![i] =
                   [IdleReq EXCEPT !.pc = FirstStep(handler), !.request = request,
                                   !.handler = handler, !.responded = handler # "none",
                                   !.steady = /\ handler = "handleOptimizedImageRequest"
                                              /\ request.url \in served]]
  /\ tasks' = Disturb(tasks)
  /\ UNCHANGED <<cacheMap, objs, puts, sweep, life, inst, act, now, httpCache, inbox, upstream, served, storedAt>>

\* the handler's promise settles
Resolve(r, response, origin) ==
  [r EXCEPT !.pc = "done", !.response = response, !.origin = origin, !.cache = NoCache]

\* a rejection replaced by a synthesized 503 response
RejectSynthesized(r) ==
  [r EXCEPT !.pc = "done", !.response = OfflineJSON, !.origin = "fallback", !.cache = NoCache]

Reject(r) == [r EXCEPT !.pc = "rejected", !.origin = "error", !.cache = NoCache]

\* the page has its answer; the slot is free again
Release(i) ==
  /\ req[i].pc \in {"done", "rejected", "passthrough"}
  /\ req' = [req EXCEPT ![i] = IdleReq]
  /\ UNCHANGED <<cacheMap, objs, puts, tasks, sweep, life, inst, act, now, httpCache, inbox, upstream, served, storedAt>>

\* a cache.put that was issued without await completes
PutLands ==
  \E p \in puts :
  /\ puts' = puts \ {p}
  /\ sweep' = IF sweep.pc \in {"loop", "delete", "matchAll"} /\ p.cache \in {ImagePartitionId, sweep.cache}
              THEN [sweep EXCEPT !.written = @ \cup {p.href}] ELSE sweep
  /\ UNCHANGED <<cacheMap, req, tasks, life, inst, act, now, httpCache, inbox, upstream, served, storedAt>>
  /\ objs' = Collect(PutIn(objs, p.cache, p.href, p.response), cacheMap', HeldNext)

\* ------------------------------------------------------------------------
\* handlePageRequest (371-452)
\* ------------------------------------------------------------------------
\* const networkResponse = await fetch(request)
PageFetch(i) ==
  /\ req[i].handler = "handlePageRequest" /\ req[i].pc = "fetch"
  /\ \E o \in NetOutcomes(req[i].request.url) :
       req' = [req EXCEPT ![i] =
         IF ~o.ok THEN [@ EXCEPT !.pc = "catch", !.net = "rejected", !.fetches = @ + 1]
         ELSE IF o.response.status = 200
           THEN [@ EXCEPT !.pc = "openDynamic", !.net = "resolved", !.fetches = @ + 1,
                          !.response = o.response]
         ELSE Resolve([@ EXCEPT !.net = "resolved", !.fetches = @ + 1],
                      o.response, "network")]
  /\ UNCHANGED <<cacheMap, objs, puts, tasks, sweep, life, inst, act, now, httpCache, inbox, upstream, served, storedAt>>

\* const cache = await caches.open(DYNAMIC_CACHE); cache.put(request, clone);
\* return networkResponse
PagePut(i) ==
  /\ req[i].handler = "handlePageRequest" /\ req[i].pc = "openDynamic"
  /\ Cardinality(puts) < MaxPuts
  /\ cacheMap' = OpenMap(cacheMap, objs, DYNAMIC_CACHE)
  /\ puts' = puts \cup {[cache |-> OpenId(cacheMap, objs, DYNAMIC_CACHE),
                         href |-> req[i].request.url, response |-> req[i].response,
                         method |-> req[i].request.method]}
  /\ req' = [req EXCEPT ![i] = Resolve([@ EXCEPT !.touched = TRUE], @.response, "network")]
  /\ UNCHANGED <<tasks, sweep, life, inst, act, now, httpCache, inbox, upstream, served, storedAt>>
  /\ objs' = Collect(OpenObjs(cacheMap, objs, DYNAMIC_CACHE), cacheMap', HeldNext)

\* an offline page sent as an error
PageFallbackError == [OfflinePage EXCEPT !.status = 503]

PageFallback == OfflinePage

\* catch: const cachedResponse = await caches.match(request); the offline page
\* when there is none
PageCatch(i) ==
  /\ req[i].handler = "handlePageRequest" /\ req[i].pc = "catch"
  /\ LET cachedResponse == CachesMatch(cacheMap, objs, req[i].request.url)
     IN  req' = [req EXCEPT ![i] =
           IF cachedResponse # NoResponse
           THEN Resolve([@ EXCEPT !.touched = TRUE, !.lookup = "hit"], cachedResponse, "cache")
           ELSE Resolve([@ EXCEPT !.touched = TRUE, !.lookup = "miss"], PageFallback, "synth")]
  /\ UNCHANGED <<cacheMap, objs, puts, tasks, sweep, life, inst, act, now, httpCache, inbox, upstream, served, storedAt>>

handlePageRequest(i) ==
  \/ PageFetch(i)
  \/ PagePut(i)
  \/ PageCatch(i)

\* ------------------------------------------------------------------------
\* handleAPIRequest (536-572)
\* ------------------------------------------------------------------------
APIFetch(i) ==
  /\ req[i].handler = "handleAPIRequest" /\ req[i].pc = "fetch"
  /\ \E o \in NetOutcomes(req[i].request.url) :
       req' = [req EXCEPT ![i] =
         IF ~o.ok THEN [@ EXCEPT !.pc = "catch", !.net = "rejected", !.fetches = @ + 1]
         ELSE IF o.response.status = 200 /\ @.request.method = "GET"
           THEN [@ EXCEPT !.pc = "openDynamic", !.net = "resolved", !.fetches = @ + 1,
                          !.response = o.response]
         ELSE Resolve([@ EXCEPT !.net = "resolved", !.fetches = @ + 1],
                      o.response, "network")]
  /\ UNCHANGED <<cacheMap, objs, puts, tasks, sweep, life, inst, act, now, httpCache, inbox, upstream, served, storedAt>>

APIPut(i) ==
  /\ req[i].handler = "handleAPIRequest" /\ req[i].pc = "openDynamic"
  /\ Cardinality(puts) < MaxPuts
  /\ cacheMap' = OpenMap(cacheMap, objs, DYNAMIC_CACHE)
  /\ puts' = puts \cup {[cache |-> OpenId(cacheMap, objs, DYNAMIC_CACHE),
                         href |-> req[i].request.url, response |-> req[i].response,
                         method |-> req[i].request.method]}
  /\ req' = [req EXCEPT ![i] = Resolve([@ EXCEPT !.touched = TRUE], @.response, "network")]
  /\ UNCHANGED <<tasks, sweep, life, inst, act, now, httpCache, inbox, upstream, served, storedAt>>
  /\ objs' = Collect(OpenObjs(cacheMap, objs, DYNAMIC_CACHE), cacheMap', HeldNext)

\* an offline answer sent as a success
APIFallbackOk == [OfflineJSON EXCEPT !.status = 200]

APIFallback == OfflineJSON

\* catch: the cached response for a GET when there is one, else the 503
APICatch(i) ==
  /\ req[i].handler = "handleAPIRequest" /\ req[i].pc = "catch"
  /\ LET cachedResponse == IF req[i].request.method = "GET"
                           THEN CachesMatch(cacheMap, objs, req[i].request.url)
                           ELSE NoResponse
     IN  req' = [req EXCEPT ![i] =
           IF cachedResponse # NoResponse
           THEN Resolve([@ EXCEPT !.touched = TRUE, !.lookup = "hit"], cachedResponse, "cache")
           ELSE Resolve([@ EXCEPT !.touched = (req[i].request.method = "GET"), !.lookup = "miss"],
                        APIFallback, "synth")]
  /\ UNCHANGED <<cacheMap, objs, puts, tasks, sweep, life, inst, act, now, httpCache, inbox, upstream, served, storedAt>>

handleAPIRequest(i) ==
  \/ APIFetch(i)
  \/ APIPut(i)
  \/ APICatch(i)

\* ------------------------------------------------------------------------
\* handleAssetRequest (575-596)
\* ------------------------------------------------------------------------
\* const cachedResponse = await caches.match(request)
AssetMatch(i) ==
  /\ req[i].handler = "handleAssetRequest" /\ req[i].pc = "match"
  /\ LET cachedResponse == CachesMatch(cacheMap, objs, req[i].request.url)
     IN  req' = [req EXCEPT ![i] =
           IF cachedResponse # NoResponse
           THEN Resolve([@ EXCEPT !.touched = TRUE, !.lookup = "hit"], cachedResponse, "cache")
           ELSE [@ EXCEPT !.pc = "fetch", !.touched = TRUE, !.lookup = "miss"]]
  /\ UNCHANGED <<cacheMap, objs, puts, tasks, sweep, life, inst, act, now, httpCache, inbox, upstream, served, storedAt>>

\* a catch block that logs and falls off its end
AssetCatchSwallow(r) == Resolve(r, NoResponse, "error")

\* catch (error) { console.log(...); throw error }
AssetCatch(r) == Reject(r)

AssetFetch(i) ==
  /\ req[i].handler = "handleAssetRequest" /\ req[i].pc = "fetch"
  /\ \E o \in NetOutcomes(req[i].request.url) :
       req' = [req EXCEPT ![i] =
         IF ~o.ok THEN AssetCatch([@ EXCEPT !.net = "rejected", !.fetches = @ + 1])
         ELSE IF o.response.status = 200
           THEN [@ EXCEPT !.pc = "openDynamic", !.net = "resolved", !.fetches = @ + 1,
                          !.response = o.response]
         ELSE Resolve([@ EXCEPT !.net = "resolved", !.fetches = @ + 1],
                      o.response, "network")]
  /\ UNCHANGED <<cacheMap, objs, puts, tasks, sweep, life, inst, act, now, httpCache, inbox, upstream, served, storedAt>>

AssetPut(i) ==
  /\ req[i].handler = "handleAssetRequest" /\ req[i].pc = "openDynamic"
  /\ Cardinality(puts) < MaxPuts
  /\ cacheMap' = OpenMap(cacheMap, objs, DYNAMIC_CACHE)
  /\ puts' = puts \cup {[cache |-> OpenId(cacheMap, objs, DYNAMIC_CACHE),
                         href |-> req[i].request.url, response |-> req[i].response,
                         method |-> req[i].request.method]}
  /\ req' = [req EXCEPT ![i] = Resolve([@ EXCEPT !.touched = TRUE], @.response, "network")]
  /\ UNCHANGED <<tasks, sweep, life, inst, act, now, httpCache, inbox, upstream, served, storedAt>>
  /\ objs' = Collect(OpenObjs(cacheMap, objs, DYNAMIC_CACHE), cacheMap', HeldNext)

handleAssetRequest(i) ==
  \/ AssetMatch(i)
  \/ AssetFetch(i)
  \/ AssetPut(i)

\* ------------------------------------------------------------------------
\* handleOptimizedImageRequest (455-533)
\* ------------------------------------------------------------------------
\* bookkeeping when href leaves the image partition
Unsteady(rq, hrefs) ==
  [i \in DOMAIN rq |-> IF rq[i].request.url \in hrefs THEN [rq[i] EXCEPT !.steady = FALSE]
                       ELSE rq[i]]

\* const imageCache = await caches.open(IMAGE_CACHE_NAME)
ImageOpen(i) ==
  /\ req[i].handler = "handleOptimizedImageRequest" /\ req[i].pc = "open"
  /\ cacheMap' = OpenMap(cacheMap, objs, IMAGE_CACHE_NAME)
  /\ objs' = OpenObjs(cacheMap, objs, IMAGE_CACHE_NAME)
  /\ req' = [req EXCEPT ![i] = [@ EXCEPT !.pc = "match", !.touched = TRUE,
                                         !.cache = OpenId(cacheMap, objs, IMAGE_CACHE_NAME)]]
  /\ UNCHANGED <<puts, tasks, sweep, life, inst, act, now, httpCache, inbox, upstream, served, storedAt>>

\* const cachedResponse = await imageCache.match(request); returned on a hit
ImageMatch(i) ==
  /\ req[i].handler = "handleOptimizedImageRequest" /\ req[i].pc = "match"
  /\ LET cachedResponse == CacheMatch(objs, req[i].cache, req[i].request.url)
     IN  req' = [req EXCEPT ![i] =
           IF cachedResponse # NoResponse
           THEN Resolve([@ EXCEPT !.lookup = "hit"], cachedResponse, "cache")
           ELSE [@ EXCEPT !.pc = "fetch", !.lookup = "miss"]]
  /\ UNCHANGED <<cacheMap, puts, tasks, sweep, life, inst, act, now, httpCache, inbox, upstream, served, storedAt>>
  /\ objs' = Collect(objs, cacheMap', HeldNext)

\* const response = await fetch(request, {headers}); a 200 is re-wrapped
ImageFetch(i) ==
  /\ req[i].handler = "handleOptimizedImageRequest" /\ req[i].pc = "fetch"
  /\ \E o \in NetOutcomes(req[i].request.url) :
       req' = [req EXCEPT ![i] =
         IF ~o.ok THEN [@ EXCEPT !.pc = "catchOpen", !.net = "rejected", !.fetches = @ + 1,
                                 !.lookup = "none", !.cache = NoCache]
         ELSE IF o.response.status = 200
           THEN [@ EXCEPT !.pc = "put", !.net = "resolved", !.fetches = @ + 1,
                          !.response = OptimizedResponse(o.response)]
         ELSE Resolve([@ EXCEPT !.net = "resolved", !.fetches = @ + 1],
                      o.response, "network")]
  /\ UNCHANGED <<cacheMap, puts, tasks, sweep, life, inst, act, now, httpCache, inbox, upstream, served, storedAt>>
  /\ objs' = Collect(objs, cacheMap', HeldNext)

\* await imageCache.put(request, optimizedResponse.clone()); return optimizedResponse
ImagePut(i) ==
  /\ req[i].handler = "handleOptimizedImageRequest" /\ req[i].pc = "put"
  /\ req' = [req EXCEPT ![i] = Resolve(@, @.response, "network")]
  /\ served' = IF req[i].cache = ImagePartitionId THEN served \cup {req[i].request.url}
               ELSE served
  /\ storedAt' = IF req[i].cache = ImagePartitionId
                 THEN [h \in DOMAIN storedAt \cup {req[i].request.url} |->
                         IF h = req[i].request.url THEN now ELSE storedAt[h]]
                 ELSE storedAt
  /\ sweep' = IF sweep.pc \in {"loop", "delete", "matchAll"} /\ req[i].cache \in {ImagePartitionId, sweep.cache}
              THEN [sweep EXCEPT !.written = @ \cup {req[i].request.url}] ELSE sweep
  /\ UNCHANGED <<cacheMap, puts, tasks, life, inst, act, now, httpCache, inbox, upstream>>
  /\ objs' = Collect(PutIn(objs, req[i].cache, req[i].request.url, req[i].response),
                     cacheMap', HeldNext)

\* catch: const imageCache = await caches.open(IMAGE_CACHE_NAME)
ImageCatchOpen(i) ==
  /\ req[i].handler = "handleOptimizedImageRequest" /\ req[i].pc = "catchOpen"
  /\ cacheMap' = OpenMap(cacheMap, objs, IMAGE_CACHE_NAME)
  /\ objs' = OpenObjs(cacheMap, objs, IMAGE_CACHE_NAME)
  /\ req' = [req EXCEPT ![i] = [@ EXCEPT !.pc = "catchMatch",
                                         !.cache = OpenId(cacheMap, objs, IMAGE_CACHE_NAME)]]
  /\ UNCHANGED <<puts, tasks, sweep, life, inst, act, now, httpCache, inbox, upstream, served, storedAt>>

\* a placeholder that caches may keep
ImageFallbackCacheable == [PlaceholderImage EXCEPT !.cc = "public, max-age=604800"]

ImageFallback == PlaceholderImage

\* const cachedResponse = await imageCache.match(request); the placeholder
\* when there is none
ImageCatchMatch(i) ==
  /\ req[i].handler = "handleOptimizedImageRequest" /\ req[i].pc = "catchMatch"
  /\ LET cachedResponse == CacheMatch(objs, req[i].cache, req[i].request.url)
     IN  req' = [req EXCEPT ![i] =
           IF cachedResponse # NoResponse
           THEN Resolve([@ EXCEPT !.lookup = "hit"], cachedResponse, "cache")
           ELSE Resolve([@ EXCEPT !.lookup = "miss"], ImageFallback, "synth")]
  /\ UNCHANGED <<cacheMap, puts, tasks, sweep, life, inst, act, now, httpCache, inbox, upstream, served, storedAt>>
  /\ objs' = Collect(objs, cacheMap', HeldNext)

handleOptimizedImageRequest(i) ==
  \/ ImageOpen(i)
  \/ ImageMatch(i)
  \/ ImageFetch(i)
  \/ ImagePut(i)
  \/ ImageCatchOpen(i)
  \/ ImageCatchMatch(i)

\* ------------------------------------------------------------------------
\* The message listener (648-709)
\* ------------------------------------------------------------------------
\* messages reach the worker that is registration.active
MessageReady ==
  /\ life.state \in {"activating", "activated"}
  /\ Cardinality(tasks) < MaxTasks

\* case 'CACHE_RECIPE': if (payload && payload.url) caches.open(DYNAMIC_CACHE).then(...)
CacheRecipeMessage(url) ==
  /\ MessageReady
  /\ tasks' = Disturb(tasks) \cup
                {[NoTask EXCEPT !.kind = "CACHE_RECIPE", !.pc = "open", !.urls = {url}]}
  /\ UNCHANGED <<cacheMap, objs, req, puts, sweep, life, inst, act, now, httpCache, inbox, upstream, served, storedAt>>

\* cache => { cache.add(payload.url) }
CacheRecipeOpen ==
  \E t \in tasks :
  /\ t.kind = "CACHE_RECIPE" /\ t.pc = "open"
  /\ cacheMap' = OpenMap(cacheMap, objs, DYNAMIC_CACHE)
  /\ objs' = OpenObjs(cacheMap, objs, DYNAMIC_CACHE)
  /\ tasks' = (tasks \ {t}) \cup
                {[t EXCEPT !.pc = "add", !.cache = OpenId(cacheMap, objs, DYNAMIC_CACHE)]}
  /\ UNCHANGED <<req, puts, sweep, life, inst, act, now, httpCache, inbox, upstream, served, storedAt>>

\* cache.add(url) settles: the response is stored when it is ok (2xx),
\* and the promise rejects, unhandled, otherwise
ResponseOk(response) == response.status >= 200 /\ response.status <= 299

CacheRecipeAdd ==
  \E t \in tasks :
  /\ t.kind = "CACHE_RECIPE" /\ t.pc = "add"
  /\ tasks' = tasks \ {t}
  /\ UNCHANGED <<cacheMap, req, puts, sweep, life, inst, act, now, httpCache, inbox, upstream, served, storedAt>>
  /\ \E url \in t.urls : \E o \in NetOutcomes(url) :
       objs' = Collect(IF o.ok /\ ResponseOk(o.response)
                       THEN PutIn(objs, t.cache, url, o.response) ELSE objs,
                       cacheMap', HeldNext)

\* case 'PRELOAD_IMAGES': if (payload && payload.urls) caches.open(IMAGE_CACHE_NAME).then(...)
PreloadImagesMessage(urls) ==
  /\ MessageReady
  /\ tasks' = Disturb(tasks) \cup
                {[NoTask EXCEPT !.kind = "PRELOAD_IMAGES", !.pc = "open", !.urls = urls]}
  /\ UNCHANGED <<cacheMap, objs, req, puts, sweep, life, inst, act, now, httpCache, inbox, upstream, served, storedAt>>

\* cache => { payload.urls.forEach(url => fetch(url)...) }: every fetch is started
PreloadOpen ==
  \E t \in tasks :
  /\ t.kind = "PRELOAD_IMAGES" /\ t.pc = "open"
  /\ cacheMap' = OpenMap(cacheMap, objs, IMAGE_CACHE_NAME)
  /\ tasks' = (tasks \ {t}) \cup
                (IF t.urls = {} THEN {}
                 ELSE {[t EXCEPT !.pc = "fetch", !.pending = t.urls,
                                 !.cache = OpenId(cacheMap, objs, IMAGE_CACHE_NAME)]})
  /\ UNCHANGED <<req, puts, sweep, life, inst, act, now, httpCache, inbox, upstream, served, storedAt>>
  /\ objs' = Collect(OpenObjs(cacheMap, objs, IMAGE_CACHE_NAME), cacheMap', HeldNext)

\* a preload that stores whatever the network answers
PreloadStoresAll(response) == TRUE

\* which preload responses are stored: if (response.status === 200)
PreloadStores(response) == response.status = 200

\* one fetch(url) settles: .then(response => { if (200) cache.put(url, response) })
\* or .catch(err => console.log(...))
PreloadFetch ==
  \E t \in tasks : \E url \in t.pending :
  /\ t.kind = "PRELOAD_IMAGES" /\ t.pc = "fetch"
  /\ \E o \in NetOutcomes(url) :
       /\ o.ok /\ PreloadStores(o.response) => Cardinality(puts) < MaxPuts
       /\ puts' = IF o.ok /\ PreloadStores(o.response)
                  THEN puts \cup {[cache |-> t.cache, href |-> url, response |-> o.response,
                              method |-> "GET"]}
                  ELSE puts
       /\ tasks' = (tasks \ {t}) \cup
                     (IF t.pending = {url} THEN {}
                      ELSE IF o.ok /\ o.response.status = 200
                        THEN {[t EXCEPT !.pending = @ \ {url}, !.ok = @ \cup {url}]}
                      ELSE {[t EXCEPT !.pending = @ \ {url}, !.failed = @ \cup {url}]})
  /\ UNCHANGED <<cacheMap, req, sweep, life, inst, act, now, httpCache, inbox, upstream, served, storedAt>>
  /\ objs' = Collect(objs, cacheMap', HeldNext)

\* case 'CLEAR_CACHE': Promise.all([caches.delete(DYNAMIC_CACHE), caches.delete(IMAGE_CACHE_NAME)])
ClearCacheMessage ==
  /\ MessageReady
  /\ tasks' = tasks \cup {[NoTask EXCEPT !.kind = "CLEAR_CACHE", !.pc = "delete",
                                         !.pending = {DYNAMIC_CACHE, IMAGE_CACHE_NAME},
                                         !.undisturbed = AtRest]}
  /\ UNCHANGED <<cacheMap, objs, req, puts, sweep, life, inst, act, now, httpCache, inbox, upstream, served, storedAt>>

\* one of the two caches.delete calls completes
ClearCacheDelete(name) ==
  \E t \in tasks :
  /\ t.kind = "CLEAR_CACHE" /\ t.pc \in {"delete", "rejected"} /\ name \in t.pending
  /\ cacheMap' = DeleteMap(cacheMap, name)
  /\ tasks' = (tasks \ {t}) \cup {[t EXCEPT !.pending = @ \ {name}]}
  /\ served' = IF name = IMAGE_CACHE_NAME THEN {} ELSE served
  /\ storedAt' = IF name = IMAGE_CACHE_NAME THEN <<>> ELSE storedAt
  /\ req' = IF name = IMAGE_CACHE_NAME THEN Unsteady(req, served) ELSE req
  /\ UNCHANGED <<puts, sweep, life, inst, act, now, httpCache, inbox, upstream>>
  /\ objs' = Collect(objs, cacheMap', HeldNext)

\* one of the two caches.delete calls rejects and has deleted nothing: Promise.all
\* rejects, the .then callback is never run and the chain has no catch (681-688).
\* The other delete, already started, still runs
ClearCacheReject(name) ==
  \E t \in tasks :
  /\ t.kind = "CLEAR_CACHE" /\ t.pc = "delete" /\ name \in t.pending
  /\ tasks' = (tasks \ {t}) \cup {[t EXCEPT !.pc = "rejected", !.pending = @ \ {name}]}
  /\ UNCHANGED <<cacheMap, objs, req, puts, sweep, life, inst, act, now, httpCache, inbox, upstream, served, storedAt>>

\* the rejected chain has ended: nothing was posted on event.ports[0], and the
\* port is dropped with the event
ClearCacheUnhandled ==
  \E t \in tasks :
  /\ t.kind = "CLEAR_CACHE" /\ t.pc = "rejected" /\ t.pending = {}
  /\ tasks' = tasks \ {t}
  /\ UNCHANGED <<cacheMap, objs, req, puts, sweep, life, inst, act, now, httpCache, inbox, upstream, served, storedAt>>

\* .then(() => { event.ports[0].postMessage({success: true}) })
ClearCacheReply ==
  \E t \in tasks :
  /\ t.kind = "CLEAR_CACHE" /\ t.pc = "delete" /\ t.pending = {}
  /\ tasks' = (tasks \ {t}) \cup
                {PostMessage([t EXCEPT !.pc = "replied"], [NoReply EXCEPT !.success = TRUE])}
  /\ UNCHANGED <<cacheMap, objs, req, puts, sweep, life, inst, act, now, httpCache, inbox, upstream, served, storedAt>>

\* case 'GET_CACHE_SIZE': Promise.all([caches.open(DYNAMIC_CACHE), caches.open(IMAGE_CACHE_NAME)]);
\* a page that has its CLEAR_CACHE reply is through with that transaction
GetCacheSizeMessage ==
  LET replied == {t \in tasks : t.kind = "CLEAR_CACHE" /\ t.pc = "replied"}
  IN  /\ life.state \in {"activating", "activated"}
      /\ Cardinality(tasks \ replied) < MaxTasks
      /\ tasks' = (tasks \ replied) \cup
                    {[NoTask EXCEPT !.kind = "GET_CACHE_SIZE", !.pc = "open",
                                    !.pending = {DYNAMIC_CACHE, IMAGE_CACHE_NAME},
                                    !.afterClear = replied # {},
                                    !.undisturbed = \E t \in replied : t.undisturbed]}
      /\ UNCHANGED <<cacheMap, objs, req, puts, sweep, life, inst, act, now, httpCache, inbox, upstream, served, storedAt>>

\* one of the two caches.open calls completes
GetCacheSizeOpen(name) ==
  \E t \in tasks :
  /\ t.kind = "GET_CACHE_SIZE" /\ t.pc = "open" /\ name \in t.pending
  /\ cacheMap' = OpenMap(cacheMap, objs, name)
  /\ objs' = OpenObjs(cacheMap, objs, name)
  /\ tasks' = (tasks \ {t}) \cup
                {IF name = DYNAMIC_CACHE
                 THEN [t EXCEPT !.pending = @ \ {name}, !.cache = OpenId(cacheMap, objs, name)]
                 ELSE [t EXCEPT !.pending = @ \ {name}, !.image = OpenId(cacheMap, objs, name)]}
  /\ UNCHANGED <<req, puts, sweep, life, inst, act, now, httpCache, inbox, upstream, served, storedAt>>

\* const dynamicKeys = await dynamicCache.keys()
GetCacheSizeDynamicKeys ==
  \E t \in tasks :
  /\ t.kind = "GET_CACHE_SIZE" /\ t.pc = "open" /\ t.pending = {}
  /\ tasks' = (tasks \ {t}) \cup
                {[t EXCEPT !.pc = "imageKeys", !.cache = NoCache,
                           !.reply.dynamicCacheSize = Cardinality(DOMAIN objs[t.cache])]}
  /\ UNCHANGED <<cacheMap, req, puts, sweep, life, inst, act, now, httpCache, inbox, upstream, served, storedAt>>
  /\ objs' = Collect(objs, cacheMap', HeldNext)

\* const imageKeys = await imageCache.keys(); event.ports[0].postMessage({...})
GetCacheSizeReply ==
  \E t \in tasks :
  /\ t.kind = "GET_CACHE_SIZE" /\ t.pc = "imageKeys"
  /\ LET imageKeys == Cardinality(DOMAIN objs[t.image])
     IN  tasks' = (tasks \ {t}) \cup
                    {PostMessage([t EXCEPT !.pc = "replied", !.image = NoCache],
                                 [t.reply EXCEPT !.imageCacheSize = imageKeys,
                                                 !.totalSize = t.reply.dynamicCacheSize
                                                                 + imageKeys])}
  /\ UNCHANGED <<cacheMap, req, puts, sweep, life, inst, act, now, httpCache, inbox, upstream, served, storedAt>>
  /\ objs' = Collect(objs, cacheMap', HeldNext)

\* default: console.log('Unknown message type', type)
MessageTypes == {"SKIP_WAITING", "CACHE_RECIPE", "PRELOAD_IMAGES", "CLEAR_CACHE", "GET_CACHE_SIZE"}

UnknownMessage(type) ==
  /\ MessageReady
  /\ type \notin MessageTypes
  /\ tasks' = tasks \cup {[NoTask EXCEPT !.kind = type, !.pc = "default"]}
  /\ UNCHANGED <<cacheMap, objs, req, puts, sweep, life, inst, act, now, httpCache, inbox, upstream, served, storedAt>>

\* the promise chain of a message has ended and its port is dropped
MessageEnd ==
  \E t \in tasks :
  /\ t.pc \in {"replied", "default"}
  /\ tasks' = tasks \ {t}
  /\ UNCHANGED <<cacheMap, objs, req, puts, sweep, life, inst, act, now, httpCache, inbox, upstream, served, storedAt>>

\* ------------------------------------------------------------------------
\* The sync listener and doBackgroundSync (605-645)
\* ------------------------------------------------------------------------
\* if (event.tag === 'background-sync') event.waitUntil(doBackgroundSync())
SyncEvent(tag) ==
  /\ life.state = "activated" /\ sweep.pc = "idle"
  /\ \A c \in DOMAIN inbox : Len(inbox[c].messages) < MaxInbox
  /\ tag = "background-sync"
  /\ sweep' = [IdleSweep EXCEPT !.pc = "open"]
  /\ UNCHANGED <<cacheMap, objs, req, puts, tasks, life, inst, act, now, httpCache, inbox, upstream, served, storedAt>>

\* const imageCache = await caches.open(IMAGE_CACHE_NAME)
SweepOpen ==
  /\ sweep.pc = "open"
  /\ cacheMap' = OpenMap(cacheMap, objs, IMAGE_CACHE_NAME)
  /\ objs' = OpenObjs(cacheMap, objs, IMAGE_CACHE_NAME)
  /\ sweep' = [sweep EXCEPT !.pc = "keys", !.cache = OpenId(cacheMap, objs, IMAGE_CACHE_NAME)]
  /\ UNCHANGED <<req, puts, tasks, life, inst, act, now, httpCache, inbox, upstream, served, storedAt>>

\* for (const request of requests) ...: the loop goes on to the next request,
\* or ends and clients.matchAll() is called
SweepNext(sw, rest) ==
  [sw EXCEPT !.pc = IF rest = {} THEN "matchAll" ELSE "loop", !.requests = rest,
             !.request = "", !.cache = IF rest = {} THEN NoCache ELSE @]

\* const requests = await imageCache.keys(); const oneWeekAgo = Date.now() - 7 days
SweepKeys ==
  /\ sweep.pc = "keys"
  /\ sweep' = SweepNext([sweep EXCEPT !.oneWeekAgo = now - RetentionDays, !.started = now],
                        DOMAIN objs[sweep.cache])
  /\ UNCHANGED <<cacheMap, req, puts, tasks, life, inst, act, now, httpCache, inbox, upstream, served, storedAt>>
  /\ objs' = Collect(objs, cacheMap', HeldNext)

\* a sweep that finds nothing expired
IsExpiredNever(response, oneWeekAgo) == FALSE

\* dateHeader && new Date(dateHeader).getTime() < oneWeekAgo
IsExpired(response, oneWeekAgo) == \E d \in response.date : d < oneWeekAgo

\* const response = await imageCache.match(request), for the next request of the
\* list (the model takes them in any order)
SweepMatch ==
  \E request \in sweep.requests :
  /\ sweep.pc = "loop"
  /\ LET response == CacheMatch(objs, sweep.cache, request)
     IN  sweep' = IF response # NoResponse /\ IsExpired(response, sweep.oneWeekAgo)
                  THEN [sweep EXCEPT !.pc = "delete", !.request = request]
                  ELSE SweepNext(sweep, sweep.requests \ {request})
  /\ UNCHANGED <<cacheMap, req, puts, tasks, life, inst, act, now, httpCache, inbox, upstream, served, storedAt>>
  /\ objs' = Collect(objs, cacheMap', HeldNext)

\* await imageCache.delete(request)
SweepDelete ==
  /\ sweep.pc = "delete"
  /\ sweep' = SweepNext([sweep EXCEPT !.evicted = @ \cup {sweep.request}],
                        sweep.requests \ {sweep.request})
  /\ served' = IF sweep.cache = ImagePartitionId THEN served \ {sweep.request} ELSE served
  /\ storedAt' = IF sweep.cache = ImagePartitionId
                 THEN [h \in DOMAIN storedAt \ {sweep.request} |-> storedAt[h]]
                 ELSE storedAt
  /\ req' = IF sweep.cache = ImagePartitionId THEN Unsteady(req, {sweep.request}) ELSE req
  /\ UNCHANGED <<cacheMap, puts, tasks, life, inst, act, now, httpCache, inbox, upstream>>
  /\ objs' = Collect([objs EXCEPT ![sweep.cache] = DeleteEntry(@, sweep.request)],
                     cacheMap', HeldNext)

\* a forEach whose callback posts nothing
BroadcastNone(ib, data) == ib

\* const clients = await self.clients.matchAll(): without includeUncontrolled,
\* the pages this worker controls; clients.forEach(client => client.postMessage(data))
Broadcast(ib, data) ==
  [c \in DOMAIN ib |->
     IF ib[c].controlled THEN [ib[c] EXCEPT !.messages = Append(@, data)] ELSE ib[c]]

\* one of the awaited operations inside try rejects: control passes to catch.
\* A delete that rejects has deleted nothing
SweepReject ==
  /\ sweep.pc \in {"open", "keys", "loop", "delete", "matchAll"}
  /\ sweep' = [IdleSweep EXCEPT !.pc = "catch", !.started = sweep.started,
                               !.written = sweep.written, !.evicted = sweep.evicted]
  /\ UNCHANGED <<cacheMap, req, puts, tasks, life, inst, act, now, httpCache, inbox, upstream, served, storedAt>>
  /\ objs' = Collect(objs, cacheMap', HeldNext)

\* catch (error) { console.error('... Background sync failed', error) }
SweepCatch ==
  /\ sweep.pc = "catch"
  /\ sweep' = IdleSweep
  /\ UNCHANGED <<cacheMap, objs, req, puts, tasks, life, inst, act, now, httpCache, inbox, upstream, served, storedAt>>

SweepNotify ==
  /\ sweep.pc = "matchAll"
  /\ sweep' = IdleSweep
  /\ inbox' = Broadcast(inbox, [type |-> "SYNC_COMPLETE", timestamp |-> now])
  /\ UNCHANGED <<cacheMap, objs, req, puts, tasks, life, inst, act, now, httpCache, upstream, served, storedAt>>

doBackgroundSync ==
  \/ SweepOpen
  \/ SweepKeys
  \/ SweepMatch
  \/ SweepDelete
  \/ SweepNotify

\* ------------------------------------------------------------------------
\* Specifications
\* ------------------------------------------------------------------------
Get(url, destination) == [method |-> "GET", url |-> url, destination |-> destination]

FetchHandlers ==
  \E i \in Slots :
    \/ handlePageRequest(i)
    \/ handleOptimizedImageRequest(i)
    \/ handleAPIRequest(i)
    \/ handleAssetRequest(i)
    \/ Release(i)

CacheRecipeSteps == CacheRecipeOpen \/ CacheRecipeAdd

PreloadSteps == PreloadOpen \/ PreloadFetch

ClearCacheSteps ==
  \/ \E name \in {DYNAMIC_CACHE, IMAGE_CACHE_NAME} : ClearCacheDelete(name)
  \/ ClearCacheReply
  \/ MessageEnd

GetCacheSizeSteps ==
  \/ \E name \in {DYNAMIC_CACHE, IMAGE_CACHE_NAME} : GetCacheSizeOpen(name)
  \/ GetCacheSizeDynamicKeys
  \/ GetCacheSizeReply

\* the exclusions: requests the listener must leave alone, an API request of
\* the application's own auth route, and messages naming an auth URL
SupabaseAuth == "https://proj.supabase.co/auth/v1/token"

FetchRequests ==
  { [method |-> "POST", url |-> "/api/recipes", destination |-> ""],
    [method |-> "POST", url |-> "/recipes", destination |-> "document"],
    Get(SupabaseAuth, ""), Get(SupabaseAuth, "image"), Get(SupabaseAuth, "document"),
    Get("/api/auth/session", "") }

NextFetch ==
  \/ FirstInstall
  \/ \E i \in Slots, request \in FetchRequests : FetchEvent(i, request)
  \/ \E i \in Slots : handleAPIRequest(i)
  \/ \E i \in Slots : Release(i)
  \/ PutLands
  \/ CacheRecipeMessage(SupabaseAuth)
  \/ CacheRecipeSteps
  \/ PreloadImagesMessage({SupabaseAuth})
  \/ PreloadSteps

SpecFetch == InitFresh /\ [][NextFetch]_vars

\* the four strategies, one request of each class
HandlerRequests ==
  { Get("/recipes", "document"), Get("/recipes.jpg", "image"),
    Get("/api/recipes", ""), Get("/assets/index.js", "script") }

NextHandlers ==
  \/ FirstInstall
  \/ \E i \in Slots, request \in HandlerRequests : FetchEvent(i, request)
  \/ FetchHandlers
  \/ PutLands

SpecHandlers == InitFresh /\ [][NextHandlers]_vars

Spec == SpecHandlers

\* the image strategy: concurrent image requests and CLEAR_CACHE
ImageRequests == { Get("/recipes.jpg", "image") }

NextImages ==
  \/ FirstInstall
  \/ \E i \in Slots, request \in ImageRequests : FetchEvent(i, request)
  \/ \E i \in Slots : handleOptimizedImageRequest(i)
  \/ \E i \in Slots : Release(i)
  \/ ClearCacheMessage
  \/ ClearCacheSteps

SpecImages == InitFresh /\ [][NextImages]_vars

\* the maintenance sweep of the image partition, behind an HTTP cache, with
\* PRELOAD_IMAGES and an image request going on
NextSweep ==
  \/ FirstInstall
  \/ FetchEvent(1, Get("/recipes.jpg", "image"))
  \/ handleOptimizedImageRequest(1)
  \/ Release(1)
  \/ PutLands
  \/ PreloadImagesMessage({"/recipes.jpg", "/upload/photo"})
  \/ PreloadSteps
  \/ SyncEvent("background-sync")
  \/ doBackgroundSync

SpecSweep == InitCached /\ [][NextSweep]_vars

\* CLEAR_CACHE followed by GET_CACHE_SIZE, with a document or image request
\* going on
ClearRequests == { Get("/recipes", "document"), Get("/recipes.jpg", "image") }

NextClear ==
  \/ FirstInstall
  \/ \E request \in ClearRequests : FetchEvent(1, request)
  \/ handlePageRequest(1)
  \/ handleOptimizedImageRequest(1)
  \/ Release(1)
  \/ PutLands
  \/ ClearCacheMessage
  \/ ClearCacheSteps
  \/ GetCacheSizeMessage
  \/ GetCacheSizeSteps

SpecClear == InitFresh /\ [][NextClear]_vars

\* CLEAR_CACHE with deletes that may reject. The promise jobs of a chain whose
\* operations settle are run by the event loop, hence the weak fairness; that a
\* delete rejects is the storage's choice and is under no fairness
NextReply ==
  \/ FirstInstall
  \/ \E request \in ClearRequests : FetchEvent(1, request)
  \/ handlePageRequest(1)
  \/ handleOptimizedImageRequest(1)
  \/ Release(1)
  \/ PutLands
  \/ ClearCacheMessage
  \/ ClearCacheSteps
  \/ \E name \in {DYNAMIC_CACHE, IMAGE_CACHE_NAME} : ClearCacheReject(name)
  \/ ClearCacheUnhandled

SpecReply == InitFresh /\ [][NextReply]_vars /\ WF_vars(ClearCacheSteps)

\* a URL of the static manifest requested as a document while the origin
\* publishes new content
NextKeys ==
  \/ FirstInstall
  \/ Publish
  \/ \E i \in Slots : FetchEvent(i, Get("/", "document"))
  \/ \E i \in Slots : handlePageRequest(i)
  \/ \E i \in Slots : Release(i)
  \/ PutLands

SpecKeys == InitFresh /\ [][NextKeys]_vars

\* PRELOAD_IMAGES with three URLs, and an image request for one of them
PreloadURLs ==
  {"/recipes.jpg", "/upload/photo", "https://proj.supabase.co/storage/v1/object/a.png"}

NextPreload ==
  \/ FirstInstall
  \/ FetchEvent(1, Get("/recipes.jpg", "image"))
  \/ handleOptimizedImageRequest(1)
  \/ Release(1)
  \/ PutLands
  \/ PreloadImagesMessage(PreloadURLs)
  \/ PreloadSteps

SpecPreload == InitFresh /\ [][NextPreload]_vars

\* ------------------------------------------------------------------------
\* The page contexts (RecipeRatingReview.tsx 553-565)
\* ------------------------------------------------------------------------
Clients == 1..MaxClients

\* a page of the application is opened.  It is controlled from its load when
\* this worker is the active one, unless the load is a forced reload, which
\* bypasses the worker
OpenPage(c, forced) ==
  /\ c \notin DOMAIN inbox
  /\ inbox' = [d \in DOMAIN inbox \cup {c} |->
                 IF d = c
                 THEN [controlled |-> ~forced /\ life.state \in {"activating", "activated"},
                       messages |-> <<>>]
                 ELSE inbox[d]]
  /\ UNCHANGED <<cacheMap, objs, req, puts, tasks, sweep, life, inst, act, now, httpCache, upstream, served, storedAt>>

\* a page is closed; what was posted to it and not handled is lost
ClosePage(c) ==
  /\ c \in DOMAIN inbox
  /\ inbox' = [d \in DOMAIN inbox \ {c} |-> inbox[d]]
  /\ UNCHANGED <<cacheMap, objs, req, puts, tasks, sweep, life, inst, act, now, httpCache, upstream, served, storedAt>>

\* navigator.serviceWorker's message listener: case 'SYNC_COMPLETE' logs
PageMessage(c) ==
  /\ c \in DOMAIN inbox /\ inbox[c].messages # <<>>
  /\ inbox' = [inbox EXCEPT ![c].messages = Tail(@)]
  /\ UNCHANGED <<cacheMap, objs, req, puts, tasks, sweep, life, inst, act, now, httpCache, upstream, served, storedAt>>

\* sweeps over entries that PRELOAD_IMAGES stored, with pages that open, close
\* and handle their messages.  event.waitUntil(doBackgroundSync()) keeps the
\* worker running until the sweep's promise settles, and each of its awaits is
\* a Cache or Clients operation that settles, so a sweep that can step does;
\* an operation may also reject, which the sweep catches
NextNotify ==
  \/ FirstInstall
  \/ \E c \in Clients, forced \in BOOLEAN : OpenPage(c, forced)
  \/ \E c \in Clients : ClosePage(c)
  \/ \E c \in Clients : PageMessage(c)
  \/ PreloadImagesMessage({"/recipes.jpg"})
  \/ PreloadSteps
  \/ PutLands
  \/ SyncEvent("background-sync")
  \/ doBackgroundSync
  \/ SweepReject
  \/ SweepCatch

SpecNotify ==
  InitCached /\ [][NextNotify]_vars /\ WF_vars(doBackgroundSync) /\ WF_vars(SweepCatch)

\* days pass between the image handler's and PRELOAD_IMAGES' writes and the
\* sweeps
NextRetention ==
  \/ FirstInstall
  \/ FetchEvent(1, Get("/recipes.jpg", "image"))
  \/ handleOptimizedImageRequest(1)
  \/ Release(1)
  \/ PreloadImagesMessage({"/upload/photo"})
  \/ PreloadSteps
  \/ PutLands
  \/ Tick
  \/ SyncEvent("background-sync")
  \/ doBackgroundSync

SpecRetention == InitFresh /\ [][NextRetention]_vars

\* cache-first requests for the same URL, two at a time, while the origin
\* publishes new content
RaceRequests == {Get("/recipes.jpg", "image"), Get("/assets/index.js", "script")}

NextRace ==
  \/ FirstInstall
  \/ Publish
  \/ \E i \in Slots, request \in RaceRequests : FetchEvent(i, request)
  \/ \E i \in Slots : handleOptimizedImageRequest(i)
  \/ \E i \in Slots : handleAssetRequest(i)
  \/ \E i \in Slots : Release(i)
  \/ PutLands

SpecRace == InitFresh /\ [][NextRace]_vars

\* every operation of the worker on one URL of the static manifest (a navigation
\* to "/" and a script's fetch("/"), which the asset handler takes), over what
\* earlier versions left and an upstream whose Date headers may be old. MaxBusy
\* bounds the operations in flight at once: a fetch event, a message chain, a
\* sweep and a write not yet landed each count as one
MaxBusy == 2

FrameRequests == {Get("/", "document"), Get("/", "")}

Busy ==
  Cardinality({i \in Slots : req[i] # IdleReq}) + Cardinality(tasks) + Cardinality(puts)
    + (IF sweep = IdleSweep THEN 0 ELSE 1)

FrameFetch(request) == Busy < MaxBusy /\ FetchEvent(1, request)

FrameMessage ==
  /\ Busy < MaxBusy
  /\ \/ CacheRecipeMessage("/")
     \/ PreloadImagesMessage({"/"})
     \/ ClearCacheMessage
     \/ GetCacheSizeMessage

FrameSync == Busy < MaxBusy /\ SyncEvent("background-sync")

NextFrame ==
  \/ Lifecycle
  \/ \E request \in FrameRequests : FrameFetch(request)
  \/ handlePageRequest(1)
  \/ handleAssetRequest(1)
  \/ Release(1)
  \/ PutLands
  \/ FrameMessage
  \/ CacheRecipeSteps
  \/ PreloadSteps
  \/ ClearCacheSteps
  \/ GetCacheSizeSteps
  \/ FrameSync
  \/ doBackgroundSync

InitFrame == InitWith({StaleNames}, {TRUE})

SpecFrame == InitFrame /\ [][NextFrame]_vars

\* requests whose path matches an API route pattern, of every classification
APIPathRequests ==
  { Get("/api/recipes", ""), Get("/api/recipes", "image"), Get("/api/recipes", "document"),
    Get("/api/recipes/1.PNG", "") }

NextAPI ==
  \/ FirstInstall
  \/ \E i \in Slots, request \in APIPathRequests : FetchEvent(i, request)
  \/ \E i \in Slots : handlePageRequest(i)
  \/ \E i \in Slots : handleOptimizedImageRequest(i)
  \/ \E i \in Slots : handleAPIRequest(i)
  \/ \E i \in Slots : Release(i)
  \/ PutLands

SpecAPI == InitFresh /\ [][NextAPI]_vars

\* the dispatch alone, applied to every request the URL table and the
\* destinations can form; two events may carry the same request
ClassifyHrefs ==
  { "/", "/App.tsx", "/styles/globals.css", "/assets/index.js", "/recipes", "/recipes.jpg",
    "/recipes.jpg?w=100", "/upload/photo", "/api/recipes", "/api/recipes?img=a.png",
    "/api/recipes/1.PNG", "/api/auth/session", "https://proj.supabase.co/auth/v1/token",
    "https://proj.supabase.co/rest/v1/recipes",
    "https://proj.supabase.co/storage/v1/object/a.png",
    "chrome-extension://abc/content.js", "moz-extension://abc/content.js" }

ClassifyRequests ==
  [method : {"GET", "POST"}, url : ClassifyHrefs,
   destination : {"", "document", "image", "script"}]

NextClassify ==
  \/ FirstInstall
  \/ \E i \in Slots, request \in ClassifyRequests : FetchEvent(i, request)

SpecClassify == InitFresh /\ [][NextClassify]_vars

\* every message type, sent to a worker that may have replaced an earlier one
NextMessages ==
  \/ Lifecycle
  \/ PutLands
  \/ CacheRecipeMessage("/api/recipes")
  \/ CacheRecipeSteps
  \/ PreloadImagesMessage({"/recipes.jpg"})
  \/ PreloadSteps
  \/ ClearCacheMessage
  \/ ClearCacheSteps
  \/ GetCacheSizeMessage
  \/ GetCacheSizeSteps
  \/ UnknownMessage("PING")

SpecMessages == Init /\ [][NextMessages]_vars

\* every lifecycle, over whatever earlier versions left, and afterwards asset
\* requests, CACHE_RECIPE and CLEAR_CACHE
NextLifecycle ==
  \/ Lifecycle
  \/ \E i \in Slots : FetchEvent(i, Get("/assets/index.js", "script"))
  \/ \E i \in Slots : handleAssetRequest(i)
  \/ \E i \in Slots : Release(i)
  \/ PutLands
  \/ ClearCacheMessage
  \/ ClearCacheSteps

SpecLifecycle == Init /\ [][NextLifecycle]_vars

\* ------------------------------------------------------------------------
\* Properties
\* ------------------------------------------------------------------------
\* the entries of the partitions CacheStorage maps
MappedIds == {cacheMap[k].id : k \in 1..Len(cacheMap)}

HeldBy(href) == {id \in MappedIds : href \in DOMAIN objs[id]}

\* C1: a fetch event whose request method is not GET gets no respondWith, and
\* no cache is opened, read or written on its behalf, whatever else the worker
\* is doing (SpecFetch)
NonGetBypass ==
  /\ \A i \in Slots :
       req[i].pc # "idle" /\ req[i].request.method # "GET" =>
         /\ req[i].pc = "passthrough"
         /\ ~req[i].responded /\ ~req[i].touched
         /\ req[i].cache = NoCache /\ req[i].fetches = 0
  /\ \A p \in puts : p.method = "GET"

\* a POST document request is passing through while a GET is being handled
NonGetBypassWitness ==
  \E i, j \in Slots :
    /\ req[i].request.method = "POST" /\ req[i].request.destination = "document"
    /\ req[i].pc = "passthrough"
    /\ req[j].responded /\ req[j].pc = "catch"

\* C2: a GET for a path containing /auth/ on a host containing supabase.co is
\* not intercepted, whatever its destination: no respondWith, no cache opened,
\* read or written for it (SpecFetch)
AuthRouteBypass ==
  \A i \in Slots :
    LET url == ParseURL(req[i].request.url)
    IN  /\ req[i].pc # "idle" /\ req[i].request.method = "GET"
        /\ Includes(url.hostname, <<"supabase", ".", "co">>)
        /\ Includes(url.pathname, <<"/", "auth", "/">>)
        => /\ req[i].pc = "passthrough"
           /\ ~req[i].responded /\ ~req[i].touched
           /\ req[i].cache = NoCache /\ req[i].fetches = 0

\* an image GET and a document GET for the token route are both passing through
AuthRouteBypassWitness ==
  \E i, j \in Slots :
    /\ req[i].request = Get(SupabaseAuth, "image") /\ req[i].pc = "passthrough"
    /\ req[j].request = Get(SupabaseAuth, "document") /\ req[j].pc = "passthrough"

\* an authentication route: a supabase.co path containing /auth/, or a path
\* matching /api/auth
IsAuthRoute(href) ==
  LET url == ParseURL(href)
  IN  \/ /\ Includes(url.hostname, <<"supabase", ".", "co">>)
         /\ Includes(url.pathname, <<"/", "auth", "/">>)
      \/ Includes(url.pathname, <<"/", "api", "/", "auth">>)

\* C3: no partition holds, and no handler returns from a partition, a response
\* for an authentication route (SpecFetch)
AuthNeverCached ==
  /\ \A id \in MappedIds : \A href \in DOMAIN objs[id] : ~IsAuthRoute(href)
  /\ \A i \in Slots :
       req[i].pc = "done" /\ req[i].origin = "cache" => ~IsAuthRoute(req[i].request.url)

\* C4: when the document handler's fetch has failed and its caches.match runs
\* while no partition holds an entry for the request, the handler returns a
\* response with status 200 whose body contains "Offline" (SpecHandlers)
DocumentFallback ==
  [][\A i \in Slots :
       /\ req[i].handler = "handlePageRequest" /\ req[i].request.destination = "document"
       /\ req[i].net = "rejected" /\ req[i].pc = "catch"
       /\ HeldBy(req[i].request.url) = {}
       /\ req'[i].pc # "catch"
       => /\ req'[i].pc = "done"
          /\ req'[i].response.status = 200
          /\ Includes(req'[i].response.body, <<"Offline">>)]_vars

\* a document handler has returned the synthesized page after a failed fetch
\* and a miss
DocumentFallbackWitness ==
  \E i \in Slots :
    /\ req[i].handler = "handlePageRequest" /\ req[i].pc = "done"
    /\ req[i].net = "rejected" /\ req[i].lookup = "miss" /\ req[i].origin = "synth"
    /\ HeldBy(req[i].request.url) = {}

\* C6: when the API handler's fetch has failed and its caches.match runs while
\* no partition holds an entry for the request, the handler returns status 503
\* with the JSON body {error, message, offline: true}; and a returned response
\* with status 503 and offline: true is always that of an API handler whose
\* fetch failed and whose lookup missed (SpecHandlers)
IsOfflineSignal(response) ==
  /\ response.status = 503
  /\ Includes(response.body, <<"offline", ":", "true">>)

APIOfflineSignal ==
  [][/\ \A i \in Slots :
          /\ req[i].handler = "handleAPIRequest"
          /\ req[i].net = "rejected" /\ req[i].pc = "catch"
          /\ HeldBy(req[i].request.url) = {}
          /\ req'[i].pc # "catch"
          => /\ req'[i].pc = "done"
             /\ IsOfflineSignal(req'[i].response)
             /\ Includes(req'[i].response.body, <<"error", ":">>)
             /\ Includes(req'[i].response.body, <<"message", ":">>)
             /\ req'[i].response.ctype = "application/json"
     /\ \A i \in Slots :
          req'[i].pc = "done" /\ IsOfflineSignal(req'[i].response)
          => /\ req'[i].handler = "handleAPIRequest"
             /\ req'[i].net = "rejected" /\ req'[i].lookup = "miss"
     /\ \A id \in DOMAIN objs' : \A href \in DOMAIN objs'[id] :
          ~IsOfflineSignal(objs'[id][href])]_vars

\* an API handler has returned the 503 while another handler has passed on a
\* 503 of the network
APIOfflineSignalWitness ==
  \E i, j \in Slots :
    /\ req[i].handler = "handleAPIRequest" /\ req[i].pc = "done"
    /\ req[i].net = "rejected" /\ req[i].lookup = "miss"
    /\ IsOfflineSignal(req[i].response)
    /\ req[j].pc = "done" /\ req[j].origin = "network" /\ req[j].response.status = 503

\* C7 as stated: whatever the network does, no handler of an intercepted GET
\* rejects; each resolves with a response (SpecHandlers)
EveryHandlerResolves ==
  \A i \in Slots :
    req[i].responded =>
      /\ req[i].pc # "rejected"
      /\ req[i].pc = "done" => req[i].response # NoResponse

\* C7: the document, image and API handlers never reject and resolve with a
\* response whatever the network does; the asset handler resolves with a
\* response unless its lookup misses and its fetch rejects, and then it
\* rejects (SpecHandlers)
HandlersResolveButAsset ==
  \A i \in Slots :
    /\ req[i].pc = "rejected" =>
         /\ req[i].handler = "handleAssetRequest"
         /\ req[i].lookup = "miss" /\ req[i].net = "rejected"
    /\ req[i].pc = "done" =>
         /\ req[i].response # NoResponse
         /\ req[i].response.status \in {200, 503}
    /\ req[i].responded /\ req[i].net = "rejected"
         /\ req[i].handler # "handleAssetRequest" => req[i].pc # "rejected"

\* the asset handler has rejected while a document handler whose fetch was
\* rejected has resolved
HandlersResolveButAssetWitness ==
  \E i, j \in Slots :
    /\ req[i].handler = "handleAssetRequest" /\ req[i].pc = "rejected"
    /\ req[j].handler = "handlePageRequest" /\ req[j].pc = "done"
    /\ req[j].net = "rejected"

\* C5: when the image handler's fetch has failed and its match runs on an
\* image partition that holds no entry for the request, the handler returns a
\* response with status 200, content type image/svg+xml and Cache-Control
\* no-cache (SpecImages)
ImageFallbackPlaceholder ==
  [][\A i \in Slots :
       /\ req[i].handler = "handleOptimizedImageRequest"
       /\ req[i].net = "rejected" /\ req[i].pc = "catchMatch"
       /\ req[i].request.url \notin DOMAIN objs[req[i].cache]
       /\ req'[i].pc # "catchMatch"
       => /\ req'[i].pc = "done"
          /\ req'[i].response.status = 200
          /\ req'[i].response.ctype = "image/svg+xml"
          /\ req'[i].response.cc = "no-cache"]_vars

\* an image handler has returned the placeholder after a failed fetch and a
\* miss, and the image partition holds no entry for its request
ImageFallbackPlaceholderWitness ==
  \E i \in Slots :
    /\ req[i].handler = "handleOptimizedImageRequest" /\ req[i].pc = "done"
    /\ req[i].net = "rejected" /\ req[i].lookup = "miss" /\ req[i].origin = "synth"
    /\ ImagePartitionId # NoCache
    /\ req[i].request.url \notin DOMAIN objs[ImagePartitionId]

\* C8: from the moment the activate handler has claimed the clients, every
\* partition CacheStorage maps has one of the three current names: the stale
\* ones were deleted before the claim (SpecLifecycle)
NoStalePartitionOnceClaimed ==
  life.claimed =>
    /\ CacheNamesOf(cacheMap) \subseteq {STATIC_CACHE, DYNAMIC_CACHE, IMAGE_CACHE_NAME}
    /\ act.toDelete = {}

\* the worker that replaced an earlier version, which had left partitions, has
\* claimed the clients and answers a request
NoStalePartitionOnceClaimedWitness ==
  /\ life.claimed /\ life.state = "activated"
  /\ \E i \in Slots : req[i].pc = "done"
  /\ StaleNames \cap CacheNamesOf(cacheMap) = {}
  /\ inst.a = "failed"

\* an entry whose date header is older than RetentionDays before the sweep's time
IsAged(response) == \E d \in response.date : d < sweep.started - RetentionDays

AgedEntries ==
  IF ImagePartitionId = NoCache THEN {}
  ELSE {href \in DOMAIN objs[ImagePartitionId] : IsAged(objs[ImagePartitionId][href])}

\* C9 as stated: when the sweep has gone through its entries, no entry of the
\* image partition has a date header older than 7 days before the sweep's
\* time, whatever was written meanwhile (SpecSweep)
NoAgedEntryAfterSweep == sweep.pc = "matchAll" => AgedEntries = {}

\* C9: when the sweep has gone through its entries, the only entries of the
\* image partition with a date header older than 7 days before the sweep's
\* time are entries written after the sweep listed the partition's keys
\* (SpecSweep)
AgedEntriesWrittenDuringSweep == sweep.pc = "matchAll" => AgedEntries \subseteq sweep.written

\* a sweep has evicted an aged entry and ends with another one, written by
\* PRELOAD_IMAGES meanwhile, in the partition
AgedEntriesWrittenDuringSweepWitness ==
  /\ sweep.pc = "matchAll"
  /\ sweep.evicted # {}
  /\ AgedEntries # {}

\* C10: an image request answered from the network with status 200 leaves its
\* URL in the image partition when the handler returns (served); a request for
\* that URL that starts afterwards, with no clear or eviction since, makes no
\* network call and is answered from the image partition (SpecImages)
ImageCacheFirst ==
  /\ ImagePartitionId = NoCache => served = {}
  /\ ImagePartitionId # NoCache => served \subseteq DOMAIN objs[ImagePartitionId]
  /\ \A i \in Slots :
       /\ req[i].pc = "done" /\ req[i].handler = "handleOptimizedImageRequest"
          /\ req[i].origin = "network" /\ req[i].response.status = 200
          => /\ req[i].fetches = 1
             /\ req[i].lookup = "miss"
       /\ req[i].steady =>
            /\ req[i].fetches = 0
            /\ req[i].pc \in {"open", "match", "done"}
            /\ req[i].pc = "done" =>
                 /\ req[i].origin = "cache"
                 /\ req[i].response.status = 200
                 /\ req[i].response.swc
                 /\ req[i].response.body[1] = req[i].request.url

\* a second request for a served URL has been answered from the partition
\* without a network call, the first one being answered from the network
ImageCacheFirstWitness ==
  \E i, j \in Slots :
    /\ req[i].pc = "done" /\ req[i].origin = "network" /\ req[i].response.status = 200
    /\ req[i].fetches = 1
    /\ req[j].steady /\ req[j].pc = "done" /\ req[j].origin = "cache"
    /\ req[j].fetches = 0 /\ req[j].request = req[i].request

\* the replies of the message transactions
ClearTasks == {t \in tasks : t.kind = "CLEAR_CACHE"}

SizeReplies == {t \in tasks : t.kind = "GET_CACHE_SIZE" /\ t.replies > 0}

ReportsZero(t) ==
  /\ t.reply.dynamicCacheSize = 0 /\ t.reply.imageCacheSize = 0 /\ t.reply.totalSize = 0

\* C11 as stated: {success: true} is posted only after both deletions, and
\* every GET_CACHE_SIZE sent after that reply reports 0, 0 and 0 (SpecClear)
ClearThenSizeZero ==
  /\ \A t \in ClearTasks : t.replies > 0 => t.pending = {} /\ t.reply.success
  /\ \A t \in SizeReplies : t.afterClear => ReportsZero(t)

\* C11: {success: true} is posted only after both deletions; a GET_CACHE_SIZE
\* sent after that reply reports 0, 0 and 0 when the CLEAR_CACHE found the
\* worker at rest and no fetch event or storing message has arrived since;
\* totalSize is always the sum of the two sizes (SpecClear)
ClearThenSizeZeroAtRest ==
  /\ \A t \in ClearTasks :
       /\ t.replies > 0 => t.pending = {} /\ t.reply.success /\ t.replies = 1
       /\ t.pc = "delete" => t.replies = 0
  /\ \A t \in SizeReplies :
       /\ t.reply.totalSize = t.reply.dynamicCacheSize + t.reply.imageCacheSize
       /\ t.afterClear /\ t.undisturbed => ReportsZero(t)

\* a GET_CACHE_SIZE sent after the reply of an undisturbed CLEAR_CACHE has
\* reported its sizes
ClearThenSizeZeroAtRestWitness ==
  \E t \in SizeReplies : t.afterClear /\ t.undisturbed /\ ReportsZero(t)

\* C12: once the install event's waitUntil promise has settled, the static
\* partition holds exactly the URLs of STATIC_ASSETS, also when fetching one
\* of them failed (SpecLifecycle)
StaticHoldsManifestAfterInstall ==
  life.state # "installing" =>
    /\ STATIC_CACHE \in CacheNamesOf(cacheMap)
    /\ DOMAIN objs[IdOf(cacheMap, STATIC_CACHE)]
         = {STATIC_ASSETS[k] : k \in 1..Len(STATIC_ASSETS)}

\* C13: once the install event has completed, skipWaiting has been called, so
\* the worker does not stay installed behind an older active worker
\* (SpecLifecycle)
InstallSkipsWaiting ==
  life.state # "installing" =>
    /\ life.skipWaiting
    /\ ~(life.state = "installed" /\ life.oldActive /\ ~life.skipWaiting)

\* the response last stored under href in SpecKeys: the static partition is
\* written by the install only, before any handler runs, so it is the dynamic
\* partition's entry when there is one
LastStored(href) ==
  IF /\ DYNAMIC_CACHE \in CacheNamesOf(cacheMap)
     /\ href \in DOMAIN objs[IdOf(cacheMap, DYNAMIC_CACHE)]
  THEN objs[IdOf(cacheMap, DYNAMIC_CACHE)][href]
  ELSE CacheMatch(objs, IdOf(cacheMap, STATIC_CACHE), href)

\* C14: when a handler's cache lookup of URL U returns a response, its body
\* is the body of the response last stored under U (SpecKeys)
CacheKeyStability ==
  [][\A i \in Slots :
       /\ req[i].pc = "catch" /\ req'[i].pc = "done" /\ req'[i].origin = "cache"
       => req'[i].response.body = LastStored(req[i].request.url).body]_vars

\* the PRELOAD_IMAGES chains that are fetching
Preloads == {t \in tasks : t.kind = "PRELOAD_IMAGES" /\ t.pc = "fetch"}

PutFor(t, url) == {p \in puts : p.cache = t.cache /\ p.href = url}

\* C15: of the URLs of a PRELOAD_IMAGES list, each one whose fetch returns
\* status 200 has its put into the image partition issued at once, and is in
\* the partition once the put has landed, whatever happened to the others; one
\* whose fetch fails or returns another status stores nothing; and the chain
\* goes on with the remaining URLs (SpecPreload)
PreloadIndependence ==
  [][/\ \A t \in Preloads \ tasks' : \A t2 \in tasks' \ tasks : \A url \in t.pending :
          /\ t2.pending = t.pending \ {url}
          /\ t2.kind = t.kind /\ t2.urls = t.urls /\ t2.cache = t.cache
          => \/ /\ t2.failed = t.failed \cup {url} /\ t2.ok = t.ok
                /\ puts' = puts /\ objs' = objs
             \/ /\ t2.ok = t.ok \cup {url} /\ t2.failed = t.failed
                /\ \E p \in PutFor(t, url)' : p.response.status = 200
                /\ objs' = objs
     /\ \A t \in Preloads' :
          /\ t.cache = ImagePartitionId'
          /\ t.ok \cup t.failed \cup t.pending = t.urls
          /\ t.pending # {}
          /\ \A url \in t.ok :
               \/ \E p \in PutFor(t, url)' : p.response.status = 200
               \/ /\ url \in DOMAIN objs'[t.cache]
                  /\ objs'[t.cache][url].status = 200
     /\ \A p \in puts' : p.response.status = 200]_vars

\* after one URL of the list has failed, a later one has been fetched with
\* status 200 and is in the image partition, and the third is still to come
PreloadIndependenceWitness ==
  \E t \in Preloads :
    /\ t.failed # {} /\ t.pending # {}
    /\ \E url \in t.ok :
         /\ url \in DOMAIN objs[ImagePartitionId]
         /\ ~objs[ImagePartitionId][url].swc
    /\ t.failed \cap DOMAIN objs[ImagePartitionId] = {}

\* the message types whose handler replies on the port
ReplyingTypes == {"CLEAR_CACHE", "GET_CACHE_SIZE"}

\* C16: a message gets at most one reply; a CLEAR_CACHE or GET_CACHE_SIZE
\* chain posts exactly one before it ends, and CACHE_RECIPE, PRELOAD_IMAGES
\* and unknown types post none (SKIP_WAITING starts no chain and touches no
\* port) (SpecMessages)
OneReplyPerMessage ==
  [][/\ \A t \in tasks' :
          /\ t.replies <= 1
          /\ t.kind \notin ReplyingTypes => t.replies = 0 /\ t.reply = NoReply
          /\ t.kind \in ReplyingTypes => (t.replies = 1 <=> t.pc = "replied")
          /\ t.kind = "CLEAR_CACHE" /\ t.replies = 1 => t.reply.success
     /\ \A t \in tasks \ tasks' :
          t.kind \in ReplyingTypes =>
            \/ t.pc = "replied" /\ t.replies = 1
            \/ \E t2 \in tasks' : t2.kind = t.kind /\ t2.replies >= t.replies
     /\ life.skipWaiting' # life.skipWaiting => tasks' = tasks]_vars

\* a GET_CACHE_SIZE chain has posted its reply after a CACHE_RECIPE chain has
\* stored an entry without posting anything
OneReplyPerMessageWitness ==
  \E t \in tasks :
    /\ t.kind = "GET_CACHE_SIZE" /\ t.pc = "replied" /\ t.replies = 1
    /\ t.reply.dynamicCacheSize = 1 /\ t.reply.totalSize = 1

\* the four strategies
Strategies ==
  {"handlePageRequest", "handleOptimizedImageRequest", "handleAPIRequest", "handleAssetRequest"}

\* a GET request that none of the three exclusions leaves to the browser
PassesExclusions(request) ==
  /\ request.method = "GET"
  /\ ParseURL(request.url).protocol # "chrome-extension:"
  /\ ~(/\ Includes(ParseURL(request.url).hostname, <<"supabase", ".", "co">>)
       /\ Includes(ParseURL(request.url).pathname, <<"/", "auth", "/">>))

\* the events the listener has dispatched
Dispatched == {i \in Slots : req[i].pc # "idle" /\ PassesExclusions(req[i].request)}

\* C18: a GET request that passes the exclusions gets exactly one strategy, by
\* the precedence document, image, api, asset, and two requests that agree
\* in destination, path and host (the same request twice among them) get
\* the same strategy (SpecClassify)
ClassificationPrecedence ==
  /\ \A i \in Dispatched :
       LET request == req[i].request
           url == ParseURL(request.url)
           image == request.destination = "image" \/ isImageRequest(url)
       IN  /\ req[i].handler \in Strategies
           /\ req[i].handler = "handlePageRequest" <=> request.destination = "document"
           /\ req[i].handler = "handleOptimizedImageRequest"
                <=> request.destination # "document" /\ image
           /\ req[i].handler = "handleAPIRequest"
                <=> request.destination # "document" /\ ~image /\ isAPIRequest(request)
           /\ req[i].handler = "handleAssetRequest"
                <=> request.destination # "document" /\ ~image /\ ~isAPIRequest(request)
  /\ \A i, j \in Dispatched :
       /\ req[i].request.destination = req[j].request.destination
       /\ ParseURL(req[i].request.url).pathname = ParseURL(req[j].request.url).pathname
       /\ ParseURL(req[i].request.url).hostname = ParseURL(req[j].request.url).hostname
       => req[i].handler = req[j].handler

\* a request that matches both the image rule and an API pattern has been
\* dispatched twice, both times to the image strategy
ClassificationPrecedenceWitness ==
  /\ Dispatched = Slots
  /\ \A i \in Slots :
       /\ req[i].request = Get("/api/recipes/1.PNG", "")
       /\ isAPIRequest(req[i].request)
       /\ req[i].handler = "handleOptimizedImageRequest"

\* C19: when the asset handler's lookup has missed and its fetch rejects, the
\* handler rejects with that error: it settles with no response of its own
\* making, and the step writes to no partition and issues no put; the
\* handler's only write is the put after a fetch that returned 200
\* (SpecHandlers)
AssetErrorPropagates ==
  [][\A i \in Slots :
       /\ req[i].handler = "handleAssetRequest" /\ req[i].pc = "fetch"
            /\ req'[i].net = "rejected"
            => /\ req[i].lookup = "miss"
               /\ req'[i].pc = "rejected" /\ req'[i].origin = "error"
               /\ req'[i].response = NoResponse
               /\ puts' = puts /\ objs' = objs /\ cacheMap' = cacheMap
       /\ req[i].handler = "handleAssetRequest" /\ req[i].pc = "rejected"
            => req'[i] \in {req[i], IdleReq}
       /\ req[i].handler = "handleAssetRequest" /\ req'[i] # req[i]
            /\ (puts' # puts \/ objs' # objs \/ cacheMap' # cacheMap)
            => req[i].pc = "openDynamic" /\ req[i].response.status = 200]_vars

\* an asset handler has rejected after a miss and a failed fetch, and no
\* partition holds an entry for its URL
AssetErrorPropagatesWitness ==
  \E i \in Slots :
    /\ req[i].handler = "handleAssetRequest" /\ req[i].pc = "rejected"
    /\ req[i].lookup = "miss" /\ req[i].net = "rejected" /\ req[i].response = NoResponse
    /\ puts = {}
    /\ \A id \in DOMAIN objs : req[i].request.url \notin DOMAIN objs[id]

\* the message a sweep posts
SyncComplete == [type |-> "SYNC_COMPLETE", timestamp |-> now]

\* the pages that a step posts a message to
PostedTo == {c \in DOMAIN inbox \cap DOMAIN inbox' :
               Len(inbox'[c].messages) > Len(inbox[c].messages)}

\* C17 as stated: every sweep that ends has posted exactly one SYNC_COMPLETE
\* message to each open page
SweepNotifiesEveryPage ==
  [][sweep.pc # "idle" /\ sweep'.pc = "idle"
       => \A c \in DOMAIN inbox :
            /\ c \in DOMAIN inbox'
            /\ inbox'[c].messages = Append(inbox[c].messages, SyncComplete)]_vars

\* C17: every sweep ends; a sweep whose awaited operations all succeed ends by
\* posting exactly one SYNC_COMPLETE message with the time to each open page
\* that the worker controls, and to no other page, after the loop over the
\* requests and with it the last deletion has ended; a sweep in which an
\* operation rejects ends in its catch block and posts nothing (SpecNotify)
SweepNotifiesControlledPages ==
  /\ [][/\ sweep.pc = "matchAll" /\ sweep'.pc = "idle"
             => /\ DOMAIN inbox' = DOMAIN inbox
                /\ \A c \in DOMAIN inbox :
                     /\ inbox'[c].controlled = inbox[c].controlled
                     /\ inbox'[c].messages =
                          IF inbox[c].controlled
                          THEN Append(inbox[c].messages, SyncComplete)
                          ELSE inbox[c].messages
        /\ PostedTo # {}
             => /\ sweep.pc = "matchAll" /\ sweep.requests = {} /\ sweep'.pc = "idle"
                /\ objs' = objs
        /\ sweep.pc # "idle" /\ sweep'.pc = "idle" => sweep.pc \in {"matchAll", "catch"}
        /\ sweep.pc = "matchAll" => sweep'.pc \in {"matchAll", "idle", "catch"}
        /\ sweep.pc = "catch" => sweep'.pc \in {"catch", "idle"}
        /\ sweep'.evicted # sweep.evicted /\ sweep'.pc # "idle" => sweep.pc = "delete"]_vars
  /\ (sweep.pc # "idle") ~> (sweep.pc = "idle")

\* a sweep has ended: the page that the worker controls has its one
\* SYNC_COMPLETE message, and the page opened by a forced reload has none
SweepNotifiesControlledPagesWitness ==
  /\ sweep.pc = "idle"
  /\ \E c, d \in DOMAIN inbox :
       /\ inbox[c].controlled /\ inbox[c].messages = <<SyncComplete>>
       /\ ~inbox[d].controlled /\ inbox[d].messages = <<>>

\* C20: when a sweep has gone through its requests, the image partition holds
\* no entry that the image handler stored more than RetentionDays before the
\* sweep began (SpecRetention)
ImageRetention ==
  sweep.pc = "matchAll" =>
    \A href \in DOMAIN storedAt :
      /\ href \in DOMAIN objs[ImagePartitionId]
      /\ objs[ImagePartitionId][href].swc
      => sweep.started - storedAt[href] <= RetentionDays

\* the URL keys of the partition mapped under name
KeysOfPartition(name) ==
  IF name \in CacheNamesOf(cacheMap) THEN DOMAIN objs[IdOf(cacheMap, name)] ELSE {}

\* C21: no URL is a key of two of the static, dynamic and image partitions
\* (SpecKeys)
OnePartitionPerKey ==
  \A n1, n2 \in {STATIC_CACHE, DYNAMIC_CACHE, IMAGE_CACHE_NAME} :
    n1 # n2 => KeysOfPartition(n1) \cap KeysOfPartition(n2) = {}

\* the handlers that ask the network first
NetworkFirst == {"handlePageRequest", "handleAPIRequest"}

\* C22: a document or API handler whose fetch resolves, with whatever status,
\* returns the response the network gave, without a lookup, also when a
\* partition holds an entry for the URL; it looks into the cache, and returns
\* a cached or synthesized response, only after its fetch has rejected
\* (SpecHandlers)
NetworkFirstReturnsLive ==
  [][\A i \in Slots :
       req[i].handler \in NetworkFirst =>
         /\ req[i].pc = "fetch" /\ req'[i].net = "resolved"
              => /\ \E o \in NetOutcomes(req[i].request.url) :
                      o.ok /\ req'[i].response = o.response
                 /\ req'[i].lookup = "none"
                 /\ req'[i].pc \in {"done", "openDynamic"}
         /\ req[i].pc = "openDynamic" /\ req'[i] # req[i]
              => /\ req'[i].pc = "done" /\ req'[i].response = req[i].response
                 /\ req'[i].lookup = "none"
         /\ req'[i].pc = "done" /\ req'[i].net = "resolved"
              => req'[i].origin = "network" /\ req'[i].fetches = 1
         /\ req'[i].pc = "done" /\ req'[i].origin \in {"cache", "synth"}
              => req'[i].net = "rejected"
         /\ req'[i].lookup # "none" => req'[i].net = "rejected"]_vars

\* an API handler has returned the network's 503 while the dynamic partition
\* held a stored 200 for its URL
NetworkFirstReturnsLiveWitness ==
  \E i \in Slots :
    /\ req[i].handler = "handleAPIRequest" /\ req[i].pc = "done"
    /\ req[i].net = "resolved" /\ req[i].response.status = 503
    /\ req[i].response = NetResponse(req[i].request.url, 503, 0, {})
    /\ HeldBy(req[i].request.url) # {}

\* the handlers that put into the dynamic partition
DynamicWriters == {"handlePageRequest", "handleAPIRequest", "handleAssetRequest"}

\* a handler of DynamicWriters has returned the network's status-200 response
ReturnedLive(r) ==
  /\ r.handler \in DynamicWriters /\ r.pc = "done"
  /\ r.origin = "network" /\ r.response.status = 200

\* C23 as stated: while a document, API or asset handler's status-200 network
\* response is being returned, the dynamic partition holds an entry for the
\* URL
WriteCompleteAtReturn ==
  \A i \in Slots :
    ReturnedLive(req[i]) => req[i].request.url \in KeysOfPartition(DYNAMIC_CACHE)

\* C23: a document, API or asset handler returns a status-200 network response
\* in the step that issues the put of that response into the dynamic
\* partition; the put completes in a later step, and the entry is in the
\* partition from then on (SpecHandlers)
WriteIssuedAtReturn ==
  [][/\ \A i \in Slots :
          ReturnedLive(req'[i]) /\ req'[i] # req[i]
            => /\ req[i].pc = "openDynamic"
               /\ \E p \in puts' :
                    /\ p.href = req[i].request.url /\ p.response = req'[i].response
                    /\ p.cache = IdOf(cacheMap', DYNAMIC_CACHE)
               /\ objs'[IdOf(cacheMap', DYNAMIC_CACHE)] =
                    IF DYNAMIC_CACHE \in CacheNamesOf(cacheMap)
                    THEN objs[IdOf(cacheMap, DYNAMIC_CACHE)] ELSE <<>>
     /\ \A p \in puts \ puts' :
          p.cache \in DOMAIN objs' =>
            p.href \in DOMAIN objs'[p.cache] /\ objs'[p.cache][p.href] = p.response]_vars

\* a document handler has returned the network's 200 while its put is pending
\* and the dynamic partition has no entry for the URL
WriteIssuedAtReturnWitness ==
  \E i \in Slots :
    /\ ReturnedLive(req[i]) /\ req[i].handler = "handlePageRequest"
    /\ req[i].request.url \notin KeysOfPartition(DYNAMIC_CACHE)
    /\ \E p \in puts : p.href = req[i].request.url /\ p.response = req[i].response

\* the handlers that look into the cache first, and the partition each writes
CacheFirst == {"handleOptimizedImageRequest", "handleAssetRequest"}

WrittenPartition(handler) ==
  IF handler = "handleOptimizedImageRequest" THEN IMAGE_CACHE_NAME ELSE DYNAMIC_CACHE

\* a cache-first handler has missed, fetched with status 200 and returned
MissedAndFetched(r) ==
  /\ r.handler \in CacheFirst /\ r.pc = "done"
  /\ r.lookup = "miss" /\ r.net = "resolved" /\ r.origin = "network"
  /\ r.response.status = 200

\* two handlers of the same strategy for the same URL have both done so
BothFetched(i, j) ==
  /\ i # j /\ MissedAndFetched(req[i]) /\ MissedAndFetched(req[j])
  /\ req[i].request = req[j].request

\* the entry of the partition mapped under name for href, NoResponse without
EntryOf(cm, os, name, href) ==
  IF name \in CacheNamesOf(cm) THEN CacheMatch(os, IdOf(cm, name), href) ELSE NoResponse

\* C24 as stated: once two cache-first handlers for the same URL have both
\* missed, fetched and completed, their writes are over: the partition holds
\* the entry for the URL, one of the two responses, and no put for it is
\* outstanding
RaceSettledAtReturn ==
  \A i, j \in Slots :
    BothFetched(i, j) =>
      LET U == req[i].request.url
      IN  /\ EntryOf(cacheMap, objs, WrittenPartition(req[i].handler), U)
               \in {req[i].response, req[j].response}
          /\ \A p \in puts : p.href # U

\* C24: two cache-first handlers for the same URL may both miss and then each
\* performs its own fetch; a write replaces the entry for the URL by the
\* response written, and the entry changes by nothing else, so the partition
\* holds the response written last.  An image handler that completes leaves
\* its own response as the entry; an asset handler's response becomes the
\* entry when its put lands, and once both handlers have completed and no put
\* for the URL is outstanding the partition holds an entry for it (SpecRace)
RaceLastWriteWins ==
  [][/\ \A i \in Slots :
          /\ req[i].handler = "handleOptimizedImageRequest"
          /\ req[i].pc = "put" /\ req'[i].pc = "done"
          => EntryOf(cacheMap', objs', IMAGE_CACHE_NAME, req[i].request.url)
               = req'[i].response
     /\ \A p \in puts \ puts' :
          EntryOf(cacheMap', objs', DYNAMIC_CACHE, p.href) = p.response
     /\ \A request \in RaceRequests :
          LET U == request.url
              name == WrittenPartition(FetchDispatch(request))
          IN  EntryOf(cacheMap', objs', name, U) # EntryOf(cacheMap, objs, name, U)
                => \/ \E i \in Slots :
                        /\ req[i].handler = "handleOptimizedImageRequest"
                        /\ req[i].request.url = U /\ req[i].pc = "put"
                        /\ req'[i].pc = "done"
                   \/ \E p \in puts \ puts' : p.href = U
     /\ \A i \in Slots :
          MissedAndFetched(req'[i]) => req'[i].fetches = 1
     /\ \A i, j \in Slots :
          BothFetched(i, j)' /\ (\A p \in puts' : p.href # req'[i].request.url)
            => EntryOf(cacheMap', objs', WrittenPartition(req'[i].handler),
                       req'[i].request.url) # NoResponse]_vars

\* two image handlers for the same URL have both missed and each fetched; they
\* hold different responses and the partition holds one of them
RaceLastWriteWinsWitness ==
  \E i, j \in Slots :
    /\ BothFetched(i, j) /\ req[i].handler = "handleOptimizedImageRequest"
    /\ req[i].fetches = 1 /\ req[j].fetches = 1
    /\ req[i].response # req[j].response
    /\ EntryOf(cacheMap, objs, IMAGE_CACHE_NAME, req[i].request.url) = req[j].response

\* C25: a fetch event whose request URL has a scheme other than http and https
\* gets no respondWith and no handler (SpecClassify)
NonHttpBypass ==
  \A i \in Slots :
    /\ req[i].pc # "idle"
    /\ ParseURL(req[i].request.url).protocol \notin {"http:", "https:"}
    => /\ req[i].handler = "none" /\ req[i].pc = "passthrough"
       /\ ~req[i].responded /\ ~req[i].touched

\* whether CacheStorage maps the static partition, and its entries
StaticPartition ==
  IF STATIC_CACHE \in CacheNamesOf(cacheMap)
  THEN <<TRUE, objs[IdOf(cacheMap, STATIC_CACHE)]>>
  ELSE <<FALSE, <<>>>>

\* C26: a step that creates or deletes the static partition, or adds,
\* overwrites or deletes one of its entries, is a step of the install handler
\* (SpecFrame)
StaticChangesOnlyInInstall ==
  [][StaticPartition' # StaticPartition
       => /\ life.state = "installing" /\ inst' # inst
          /\ req' = req /\ tasks' = tasks /\ sweep' = sweep /\ puts' = puts
          /\ act' = act]_vars

\* the worker is activated over what an earlier version left, a CLEAR_CACHE
\* has been answered, PRELOAD_IMAGES has stored "/" in the image partition,
\* and the static partition holds the manifest as install stored it
StaticChangesOnlyInInstallWitness ==
  /\ life.state = "activated" /\ CacheNamesOf(cacheMap) \cap StaleNames = {}
  /\ \E t \in tasks : t.kind = "CLEAR_CACHE" /\ t.replies = 1
  /\ sweep.pc = "matchAll" /\ sweep.evicted # {}
  /\ StaticPartition[1]
  /\ DOMAIN StaticPartition[2] = {STATIC_ASSETS[k] : k \in 1..Len(STATIC_ASSETS)}

\* the responses the handlers synthesize
Fallbacks == {OfflinePage, PlaceholderImage, OfflineJSON}

\* C27: no Cache object holds a synthesized fallback response and no pending
\* put carries one, and a response that a handler returns from a cache is not
\* a fallback (SpecHandlers)
FallbacksNeverCached ==
  /\ \A id \in DOMAIN objs : \A href \in DOMAIN objs[id] :
       /\ objs[id][href] \notin Fallbacks
       /\ objs[id][href].status = 200 /\ objs[id][href].body[1] = href
  /\ \A p \in puts : p.response \notin Fallbacks /\ p.response.body[1] = p.href
  /\ \A i \in Slots :
       req[i].pc = "done" /\ req[i].origin = "cache" => req[i].response \notin Fallbacks

\* a handler has returned the network's response for a URL for which another
\* handler, whose fetch had failed, holds a synthesized fallback
FallbacksNeverCachedWitness ==
  \E i, j \in Slots :
    /\ req[j].pc = "done" /\ req[j].origin = "synth" /\ req[j].response \in Fallbacks
    /\ req[i].pc = "done" /\ req[i].request = req[j].request
    /\ req[i].origin = "network" /\ req[i].response.status = 200
    /\ HeldBy(req[i].request.url) # {}

\* C28: while the worker is activated, the static partition holds every URL
\* of STATIC_ASSETS (SpecLifecycle)
ActiveHoldsManifest ==
  life.state = "activated" =>
    \A k \in 1..Len(STATIC_ASSETS) : STATIC_ASSETS[k] \in KeysOfPartition(STATIC_CACHE)

\* a handler has answered a GET for an API route path from a cache
APIPathFromCache(r) ==
  /\ r.pc = "done" /\ r.request.method = "GET" /\ isAPIRequest(r.request)
  /\ r.origin = "cache"

\* C29 as stated: a GET whose path matches an API route pattern is answered
\* from a cache only after its fetch has been tried and has failed
APIPathNeverFromCache ==
  \A i \in Slots : APIPathFromCache(req[i]) => req[i].net = "rejected"

\* C29: a GET whose path matches an API route pattern goes to the document,
\* image or API strategy; the document and API strategies answer it from a
\* cache only after its fetch has failed, and the image strategy, which takes
\* it when its destination is image or its URL passes the image rule, answers
\* it from the image partition without a fetch when the partition holds it
\* (SpecAPI)
APIPathNetworkFirstUnlessImage ==
  \A i \in Slots :
    req[i].pc # "idle" /\ req[i].request.method = "GET" /\ isAPIRequest(req[i].request) =>
      /\ req[i].handler \in NetworkFirst \cup {"handleOptimizedImageRequest"}
      /\ req[i].handler = "handleOptimizedImageRequest"
           <=> /\ req[i].request.destination # "document"
               /\ \/ req[i].request.destination = "image"
                  \/ isImageRequest(ParseURL(req[i].request.url))
      /\ APIPathFromCache(req[i]) /\ req[i].handler \in NetworkFirst
           => req[i].net = "rejected" /\ req[i].fetches = 1
      /\ APIPathFromCache(req[i]) /\ req[i].net # "rejected"
           => /\ req[i].handler = "handleOptimizedImageRequest"
              /\ req[i].lookup = "hit" /\ req[i].fetches = 0 /\ req[i].response.swc

\* the API strategy has answered /api/recipes from the network while the
\* dynamic partition held it, and the image strategy has answered
\* /api/recipes/1.PNG from the image partition without a fetch
APIPathNetworkFirstUnlessImageWitness ==
  \E i, j \in Slots :
    /\ req[i].handler = "handleAPIRequest" /\ req[i].pc = "done"
    /\ req[i].origin = "network" /\ HeldBy(req[i].request.url) # {}
    /\ req[j].handler = "handleOptimizedImageRequest" /\ APIPathFromCache(req[j])
    /\ req[j].request.url = "/api/recipes/1.PNG" /\ req[j].net = "none"

\* ------------------------------------------------------------------------
\* C30: every CLEAR_CACHE message sent with a reply port is eventually answered,
\* so that the promise of the page's clearCache() resolves, also when deleting a
\* partition fails. The chain has no catch: after a rejected delete nothing is
\* ever posted on the port.
ClearCacheAsked == \E t \in tasks : t.kind = "CLEAR_CACHE" /\ t.replies = 0

ClearCacheAnswered == \E t \in tasks : t.kind = "CLEAR_CACHE" /\ t.replies = 1

ClearCacheEventuallyAnswered == ClearCacheAsked ~> ClearCacheAnswered

====
